---- MODULE Spec2Model ----
(***************************************************************************)
(* PromptHub MCP: the DAG orchestrator of PromptRouter (executeDag,        *)
(* validateDAG, topologicalSort, prepareNodeInputs), the single-prompt     *)
(* entry point PromptRouter.executePrompt with its module cache, and the   *)
(* staged pipeline PromptModule.execute.                                   *)
(*                                                                         *)
(* JavaScript objects are functions from a finite set of keys to strings.  *)
(* An exception is the outcome kind "throw" of an operator; a try/catch    *)
(* turns it into a value.  In the runs of the router the vault, the first  *)
(* failing stage of a pipeline and the model output are the environment:   *)
(* each is chosen with \E where the code consults it.  In the runs of one  *)
(* PromptModule (SpecModule, SpecValidate) validateInput and checkAccess   *)
(* are computed from the schema, the access policy, the input, the caller  *)
(* and the clock.  SpecRace interleaves concurrent executePrompt calls at  *)
(* their await points.                                                     *)
(***************************************************************************)
EXTENDS Integers, Sequences, FiniteSets, TLC

VARIABLES
    call,            \* which entry point the caller invoked, with its context
    dag,             \* dag.nodes of the executeDag call
    rootInputs,      \* rootInputs of the executeDag call
    pc,              \* position of the call: called, loop, inflight, returned
    sortedNodes,     \* result of topologicalSort: node ids in execution order
    idx,             \* position of the for-loop in sortedNodes
    current,         \* the node whose pipeline is in flight, with its inputs
    results,         \* executeDag: results (node id -> PromptExecutionResult)
    executionOrder,  \* executeDag: executionOrder
    nodeInputsLog,   \* node id -> the input map its pipeline was started with
    started,         \* ids of the nodes whose pipeline was started, in order
    moduleCache,     \* PromptRouter.moduleCache: the cache keys that hold a module
    executionCount,  \* PromptModule.executionCount of each module
    vaultCalls,      \* number of vaultClient.getPrompt calls made
    vaultReply,      \* reply of the last call's vault lookup, none without one
    promptRet,       \* outcome of the last PromptRouter.executePrompt call
    moduleRet,       \* outcome of the last PromptModule.execute call
    ret,             \* outcome of the call
    pm,              \* a PromptModule: definition.inputs, metadata, executionCount
    clock,           \* Date.now()
    callNo,          \* number of PromptModule.execute calls made on pm
    successes,       \* number of those calls that returned success = true
    lastExec,        \* the last execute call on pm: arguments, response, stages run
    validation,      \* the last validateInput call on pm: input and result
    lastUpdate,      \* the last updateMetadata call on pm: arguments and outcome
    signing,         \* two generateExecutionSignature calls: arguments, results
    inflight,        \* concurrent executePrompt calls: position, module, result
    modules,         \* the PromptModule objects constructed by the router
    cached,          \* PromptRouter.moduleCache as a map: key -> module object
    rendering,       \* one rendering of a template: arguments and result
    routed,          \* the last executePrompt call with its two execution ids
    server,          \* PromptHubMCPServer: loadedModules, its router's moduleCache
    manager          \* ExecutionContextManager: contexts, executionHistory

dagVars == <<call, dag, rootInputs, pc, sortedNodes, idx, current, results,
             executionOrder, nodeInputsLog, started, moduleCache, executionCount,
             vaultCalls, vaultReply, promptRet, moduleRet, ret>>

moduleVars ==
    <<pm, clock, callNo, successes, lastExec, validation, lastUpdate, signing>>

raceVars == <<inflight, modules, cached>>

toolVars == <<rendering, routed, server, manager>>

vars == <<call, dag, rootInputs, pc, sortedNodes, idx, current, results,
          executionOrder, nodeInputsLog, started, moduleCache, executionCount,
          vaultCalls, vaultReply, promptRet, moduleRet, ret,
          pm, clock, callNo, successes, lastExec, validation, lastUpdate,
          signing,
          inflight, modules, cached,
          rendering, routed, server, manager>>

----------------------------------------------------------------------------
(* Bounds and input sets *)

MaxNodes == 3
MaxEdges == 3

Ids == <<"A", "B", "C">>
IdSet == {Ids[i] : i \in 1..Len(Ids)}

EmptyObj == [k \in {} |-> ""]

\* Object.assign(target, source) / spread: keys of source override
Assign(target, source) ==
    [k \in (DOMAIN target) \cup (DOMAIN source) |->
        IF k \in DOMAIN source THEN source[k] ELSE target[k]]

Obj1(k, v) == [x \in {k} |-> v]

RootInputSet == {EmptyObj, Obj1("x", "4")}

\* the value a successful pipeline hands back as output
ObjectValue(f) == [type |-> "object", fields |-> f]
StringValue == [type |-> "string", fields |-> EmptyObj]
NullValue == [type |-> "null", fields |-> EmptyObj]

\* an array of one element: its own enumerable key is the index "0"
ArrayValue == [type |-> "array", fields |-> Obj1("0", "e")]

\* PromptModule.executePrompt's mock response object
MockOutput ==
    ObjectValue([k \in {"text", "renderedPrompt", "executionId", "timestamp"} |-> k])

Outputs ==
    { MockOutput,
      ObjectValue(Obj1("content", "X")),
      ObjectValue(Assign(Obj1("x", "2"), Obj1("y", "3"))),
      StringValue }

\* typeof v === 'object' && v !== null
IsNonNullObject(v) == v.type \in {"object", "array"}

\* promptId of a node: nodes A and C invoke the same prompt
PromptOf(id) == IF id = "B" THEN "p2" ELSE "p1"

\* literal inputs of a node: node B carries {x: "1"}, the others {}
LiteralOf(id) == IF id = "B" THEN Obj1("x", "1") ELSE EmptyObj

SeqSet(S, n) == UNION {[1..m -> S] : m \in 0..n}

Range(s) == {s[i] : i \in 1..Len(s)}

NoRepeat(s) == \A i, j \in 1..Len(s) : i # j => s[i] # s[j]

DepLists == {s \in SeqSet(IdSet, Len(Ids)) : NoRepeat(s)}

\* node ids are named in order of first appearance: the first node is A,
\* and a node introduces at most the next unused name
RECURSIVE CanonicalFrom(_, _, _)
CanonicalFrom(ids, i, used) ==
    IF i > Len(ids) THEN TRUE
    ELSE \E k \in 1..Len(Ids) :
            /\ ids[i] = Ids[k]
            /\ k <= used + 1
            /\ CanonicalFrom(ids, i + 1, IF k = used + 1 THEN k ELSE used)

IdLists == {s \in SeqSet(IdSet, MaxNodes) : CanonicalFrom(s, 1, 0)}

\* the dependency lists of n nodes, at most e entries in all; the nodes at
\* the positions m have no list
RECURSIVE DepChoices(_, _, _)
DepChoices(n, e, m) ==
    IF n = 0 THEN {<<>>}
    ELSE UNION { { Append(p, d) : p \in DepChoices(n - 1, e - Len(d), m) } :
                   d \in IF n \in m THEN {<<>>}
                          ELSE {x \in DepLists : Len(x) <= e} }

Node(id, hasDeps, deps) ==
    [id |-> id, promptId |-> PromptOf(id), hasDeps |-> hasDeps,
     dependencies |-> deps, inputs |-> LiteralOf(id)]

\* the DAG of the nodes ids, with the dependency lists d, in which exactly
\* the nodes at the positions m lack their dependencies list
DagOf(ids, d, m) == [i \in 1..Len(ids) |-> Node(ids[i], i \notin m, d[i])]

----------------------------------------------------------------------------
(* Exceptions *)

Ok(v) ==
    [kind |-> "return", value |-> v, error |-> "none", message |-> "",
     details |-> <<>>]

\* throw new PromptHubMCPError(code, message, details)
ThrowError(code, message, details) ==
    [kind |-> "throw", value |-> "none", error |-> code, message |-> message,
     details |-> details]

Throw(code) == ThrowError(code, "", <<>>)

NotCalled ==
    [kind |-> "none", value |-> "none", error |-> "none", message |-> "",
     details |-> <<>>]

----------------------------------------------------------------------------
(* PromptRouter: topologicalSort, hasCycles, validateDAG, prepareNodeInputs *)

\* nodeMap.get(nodeId): new Map(entries) keeps the last entry of a key
NodeById(g, nodeId) ==
    g[CHOOSE i \in 1..Len(g) :
        /\ g[i].id = nodeId
        /\ \A j \in 1..Len(g) : g[j].id = nodeId => j <= i]

\* state of one topologicalSort call
SortStart == [visited |-> {}, temp |-> {}, result |-> <<>>, thrown |-> FALSE]

\* a visit that takes a node in progress for a finished one
OnInProgress_ignore(st) == st

\* visit() meets a node that is in progress: throw 'DAG contains cycles'
OnInProgress(st) == [st EXCEPT !.thrown = TRUE]

\* result.unshift(node)
Unshift(result, nodeId) == <<nodeId>> \o result

RECURSIVE Visit(_, _, _), VisitDeps(_, _, _, _)

\* const visit = (nodeId) => {...}
Visit(g, st, nodeId) ==
    IF st.thrown THEN st
    ELSE IF nodeId \in st.temp THEN OnInProgress(st)
    ELSE IF nodeId \in st.visited THEN st
    ELSE LET s1 == [st EXCEPT !.temp = @ \cup {nodeId}]
             s2 == VisitDeps(g, s1, NodeById(g, nodeId).dependencies, 1)
         IN  IF s2.thrown THEN s2
             ELSE [s2 EXCEPT !.temp = @ \ {nodeId},
                             !.visited = @ \cup {nodeId},
                             !.result = Unshift(@, nodeId)]

\* for (const dep of node.dependencies) visit(dep)
VisitDeps(g, st, deps, i) ==
    IF i > Len(deps) \/ st.thrown THEN st
    ELSE VisitDeps(g, Visit(g, st, deps[i]), deps, i + 1)

\* for (const node of dag.nodes) if (!visited.has(node.id)) visit(node.id)
RECURSIVE SortFrom(_, _, _)
SortFrom(g, st, i) ==
    IF i > Len(g) \/ st.thrown THEN st
    ELSE SortFrom(g,
                  IF g[i].id \in st.visited THEN st ELSE Visit(g, st, g[i].id),
                  i + 1)

\* topologicalSort(dag): the sorted node ids, or the cycle error
topologicalSort(g) ==
    LET st == SortFrom(g, SortStart, 1)
    IN  IF st.thrown THEN Throw("VALIDATION_ERROR") ELSE Ok(st.result)

hasCycles(g) == topologicalSort(g).kind = "throw"

NodeIds(g) == {g[i].id : i \in 1..Len(g)}

\* a validation without the duplicate check
HasDuplicateIds_never(g) == FALSE

\* nodeIds.size !== dag.nodes.length
HasDuplicateIds(g) == Cardinality(NodeIds(g)) # Len(g)

\* the dependency loop of validateDAG stops at node i: the node has no
\* dependencies list to iterate, or it names an id that is no node
StopsAt(g, i) ==
    \/ ~g[i].hasDeps
    \/ \E k \in 1..Len(g[i].dependencies) : g[i].dependencies[k] \notin NodeIds(g)

\* validateDAG(dag): returns, or throws the first error met
validateDAG(g) ==
    IF HasDuplicateIds(g) THEN Throw("VALIDATION_ERROR")
    ELSE IF \E i \in 1..Len(g) : StopsAt(g, i)
    THEN LET i == CHOOSE k \in 1..Len(g) :
                     StopsAt(g, k) /\ \A j \in 1..(k - 1) : ~StopsAt(g, j)
         IN  IF g[i].hasDeps THEN Throw("VALIDATION_ERROR") ELSE Throw("TypeError")
    ELSE IF hasCycles(g) THEN Throw("VALIDATION_ERROR")
    ELSE Ok("void")

\* the dependency loop of prepareNodeInputs
RECURSIVE MergeDeps(_, _, _, _)
MergeDeps(inputs, deps, previousResults, i) ==
    IF i > Len(deps) THEN inputs
    ELSE LET dep == deps[i]
             merged ==
                 IF /\ dep \in DOMAIN previousResults
                    /\ previousResults[dep].success
                    /\ IsNonNullObject(previousResults[dep].output)
                 THEN Assign(inputs, previousResults[dep].output.fields)
                 ELSE inputs
         IN  MergeDeps(merged, deps, previousResults, i + 1)

\* a merge in which the values already present win over the root inputs
MergeRoot_targetWins(inputs, root) == Assign(root, inputs)

\* Object.assign(inputs, rootInputs)
MergeRoot(inputs, root) == Assign(inputs, root)

prepareNodeInputs(node, root, previousResults) ==
    MergeRoot(MergeDeps(node.inputs, node.dependencies, previousResults, 1), root)

----------------------------------------------------------------------------
(* PromptModule.execute *)

\* what the environment decides during one pipeline run: the vault's reply
\* on a cache miss, the first stage of the pipeline that fails, the output
VaultReplies == {"found", "null", "throws", "invalid_definition"}
FailStages == {"none", "input", "access", "render"}
Envs == [vault : VaultReplies, failAt : FailStages, output : Outputs]

Contexts == {"valid", "invalid", "undefined"}

\* ExecutionContextSchema.safeParse(context).success
ContextValid(ctx) == ctx = "valid"

\* error instanceof PromptHubMCPError
IsPromptHubError(code) == code \notin {"Error", "TypeError"}

\* the ModuleResponse of the success path: code "none" is an absent
\* metadata.error
ModuleSuccess(output) ==
    [success |-> TRUE, output |-> output, code |-> "none", details |-> <<>>,
     signature |-> TRUE]

\* a catch block that leaves the details of the error out
ModuleError_noDetails(code, details) ==
    [success |-> FALSE, output |-> NullValue, code |-> code,
     details |-> <<>>, signature |-> FALSE]

\* the ModuleResponse built by the catch block: metadata.error holds the
\* code and the details of the error, there is no signature
ModuleError(code, details) ==
    [success |-> FALSE, output |-> NullValue, code |-> code,
     details |-> details, signature |-> FALSE]

ModuleFailure(code) == ModuleError(code, <<>>)

\* the try block of PromptModule.execute
ExecuteBody(ctx, env) ==
    IF ~ContextValid(ctx) THEN Throw("VALIDATION_ERROR")
    ELSE IF env.failAt = "input" THEN Throw("INVALID_INPUT")
    ELSE IF env.failAt = "access" THEN Throw("ACCESS_DENIED")
    ELSE IF env.failAt = "render" THEN Throw("Error")
    ELSE Ok(ModuleSuccess(env.output))

\* the catch block of PromptModule.execute
ExecuteCatch(body) ==
    IF body.kind = "throw"
    THEN IF IsPromptHubError(body.error)
         THEN Ok(ModuleError(body.error, body.details))
         ELSE Ok(ModuleFailure("EXECUTION_FAILED"))
    ELSE body

ModuleExecute(ctx, env) == ExecuteCatch(ExecuteBody(ctx, env))

\* a variant of execute that counts every call, failed ones included
CountAfter_always(count, outcome) == count + 1

\* this.executionCount++ is reached on the success path only
CountAfter(count, outcome) ==
    IF outcome.kind = "return" /\ outcome.value.success THEN count + 1 ELSE count

----------------------------------------------------------------------------
(* PromptModule: validateInput, checkAccess and the stages of execute *)

\* a JavaScript object with optional properties is a function whose domain
\* holds the properties that are defined
Has(o, f) == f \in DOMAIN o

\* a JSON value of an input map: a string is the sequence of its characters,
\* num is the value of a number and the length of an array
StrValue(s) == [type |-> "string", str |-> s, num |-> 0]
NumValue(n) == [type |-> "number", str |-> <<>>, num |-> n]
BoolValue == [type |-> "boolean", str |-> <<>>, num |-> 0]
ArrValue(n) == [type |-> "array", str |-> <<>>, num |-> n]
ObjValue == [type |-> "object", str |-> <<>>, num |-> 0]

\* an object in insertion order (Object.entries): a sequence of entries
Entry(k, v) == [key |-> k, value |-> v]
Keys(o) == {o[i].key : i \in DOMAIN o}
Get(o, k) == o[CHOOSE i \in DOMAIN o : o[i].key = k].value

\* new RegExp(pattern).test(s) for the patterns of the schemas below
RegExpTest(pattern, s) ==
    CASE pattern = "^a" -> Len(s) > 0 /\ s[1] = "a"
      [] pattern = "b$" -> Len(s) > 0 /\ s[Len(s)] = "b"
      [] OTHER -> FALSE

\* an entry of the errors or warnings list: the message with its parts
Message(key, text, bound, list) ==
    [key |-> key, text |-> text, bound |-> bound, list |-> list]

NoError == Message("", "null", 0, <<>>)

\* param.minLength && ..., param.maxLength && ...: the bound is defined and
\* is not 0
TruthyBound(param, f) == Has(param, f) /\ param[f] # 0

\* validateParameterValue(key, value, param): the first violated constraint
validateParameterValue(key, value, param) ==
    CASE param.type = "string" ->
           IF value.type # "string"
           THEN Message(key, "must be a string", 0, <<>>)
           ELSE IF TruthyBound(param, "minLength")
                   /\ Len(value.str) < param.minLength
           THEN Message(key, "must be at least characters", param.minLength, <<>>)
           ELSE IF TruthyBound(param, "maxLength")
                   /\ Len(value.str) > param.maxLength
           THEN Message(key, "must be at most characters", param.maxLength, <<>>)
           ELSE IF Has(param, "pattern") /\ ~RegExpTest(param.pattern, value.str)
           THEN Message(key, "does not match required pattern", 0, <<>>)
           ELSE IF Has(param, "enum")
                   /\ value.str \notin {param.enum[i] : i \in DOMAIN param.enum}
           THEN Message(key, "must be one of", 0, param.enum)
           ELSE NoError
      [] param.type = "number" ->
           IF value.type # "number"
           THEN Message(key, "must be a number", 0, <<>>)
           ELSE IF Has(param, "minimum") /\ value.num < param.minimum
           THEN Message(key, "must be at least", param.minimum, <<>>)
           ELSE IF Has(param, "maximum") /\ value.num > param.maximum
           THEN Message(key, "must be at most", param.maximum, <<>>)
           ELSE NoError
      [] param.type = "boolean" ->
           IF value.type # "boolean"
           THEN Message(key, "must be a boolean", 0, <<>>)
           ELSE NoError
      [] param.type = "array" ->
           IF value.type # "array"
           THEN Message(key, "must be an array", 0, <<>>)
           ELSE IF TruthyBound(param, "minItems") /\ value.num < param.minItems
           THEN Message(key, "must have at least items", param.minItems, <<>>)
           ELSE IF TruthyBound(param, "maxItems") /\ value.num > param.maxItems
           THEN Message(key, "must have at most items", param.maxItems, <<>>)
           ELSE NoError
      [] param.type = "object" ->
           IF value.type # "object"
           THEN Message(key, "must be an object", 0, <<>>)
           ELSE NoError
      [] OTHER -> NoError

\* a validator that never reports a missing key
MissingRequired_never(key, param, input) == FALSE

\* param.required && !(key in input)
MissingRequired(key, param, input) ==
    /\ Has(param, "required") /\ param.required
    /\ key \notin Keys(input)

RECURSIVE ParameterErrors(_, _, _)
\* the first loop of validateInput, from entry i of definition.inputs on
ParameterErrors(inputs, input, i) ==
    IF i > Len(inputs) THEN <<>>
    ELSE LET key == inputs[i].key
             param == inputs[i].value
             found == IF key \in Keys(input)
                      THEN validateParameterValue(key, Get(input, key), param)
                      ELSE NoError
         IN  (IF MissingRequired(key, param, input)
              THEN <<Message(key, "Required parameter is missing", 0, <<>>)>>
              ELSE IF found # NoError THEN <<found>>
              ELSE <<>>)
                 \o ParameterErrors(inputs, input, i + 1)

RECURSIVE UnexpectedParameters(_, _, _)
\* the second loop of validateInput, from entry i of the input on
UnexpectedParameters(inputs, input, i) ==
    IF i > Len(input) THEN <<>>
    ELSE (IF input[i].key \notin Keys(inputs)
          THEN <<Message(input[i].key, "Unexpected parameter will be ignored",
                         0, <<>>)>>
          ELSE <<>>)
             \o UnexpectedParameters(inputs, input, i + 1)

\* validateInput(input) of a module whose definition.inputs is inputs
validateInput(inputs, input) ==
    LET errors == ParameterErrors(inputs, input, 1)
        warnings == UnexpectedParameters(inputs, input, 1)
    IN  [valid |-> Len(errors) = 0, errors |-> errors, warnings |-> warnings]

\* a preparation that hands the caller's input on as it is
prepareExecutionInputs_copyAll(inputs, input, i) == input

RECURSIVE prepareExecutionInputs(_, _, _)
\* prepareExecutionInputs(input), from entry i of definition.inputs on
prepareExecutionInputs(inputs, input, i) ==
    IF i > Len(inputs) THEN <<>>
    ELSE LET key == inputs[i].key
             param == inputs[i].value
         IN  (IF key \in Keys(input) THEN <<Entry(key, Get(input, key))>>
              ELSE IF Has(param, "default") THEN <<Entry(key, param.default)>>
              ELSE <<>>)
                 \o prepareExecutionInputs(inputs, input, i + 1)

\* ExecutionContextSchema.safeParse(context).success: caller, timestamp and
\* requestId are required, a property of the wrong type counts as undefined
ContextStage(context) ==
    IF Has(context, "caller") /\ Has(context, "timestamp")
          /\ Has(context, "requestId")
    THEN Ok("context")
    ELSE ThrowError("VALIDATION_ERROR", "Invalid execution context", <<>>)

\* an input stage that does not consult the verdict of the validator
InputStage_skip(inputs, input) == Ok(validateInput(inputs, input))

\* the input validation of execute
InputStage(inputs, input) ==
    LET v == validateInput(inputs, input)
    IN  IF ~v.valid
        THEN ThrowError("INVALID_INPUT", "Input validation failed", v.errors)
        ELSE Ok(v)

\* the check that follows the switch of checkAccess
CheckExpiration(policy, now) ==
    IF Has(policy, "expirationDate") /\ policy.expirationDate # 0
          /\ now > policy.expirationDate
    THEN ThrowError("ACCESS_DENIED", "Access to this prompt has expired", <<>>)
    ELSE Ok("granted")

\* a private case that lets any caller pass
PrivateCase_anyCaller(author, caller) == Ok("granted")

\* case 'private' of checkAccess
PrivateCase(author, caller) ==
    IF caller # author
    THEN ThrowError("ACCESS_DENIED",
                    "This prompt is private and can only be accessed by the author",
                    <<>>)
    ELSE Ok("granted")

\* case 'custom' of checkAccess: the outcome of the case, "break" when the
\* switch is left for the expiration check
CustomCase(policy, caller) ==
    IF Has(policy, "whitelist") /\ caller \notin policy.whitelist
    THEN ThrowError("ACCESS_DENIED",
                    "Caller is not in the whitelist for this prompt", <<>>)
    ELSE Ok("break")

\* checkAccess(caller) at time now; the holding of a token or an NFT is not
\* consulted
checkAccess(policy, author, caller, now) ==
    CASE policy.type = "public" -> Ok("granted")
      [] policy.type = "private" -> PrivateCase(author, caller)
      [] policy.type \in {"token_gated", "nft_gated"} -> CheckExpiration(policy, now)
      [] policy.type = "custom" ->
           IF CustomCase(policy, caller).kind = "throw"
           THEN CustomCase(policy, caller)
           ELSE CheckExpiration(policy, now)
      [] OTHER -> CheckExpiration(policy, now)

\* the stages of execute in the order of its statements
AllStages ==
    <<"context", "input", "access", "prepare", "dependencies", "render",
      "model", "count", "signature">>

\* the try block of execute on module m: its outcome, the stages that ran
\* and the execution inputs it prepared
ExecuteTry(m, input, context, now) ==
    LET c == ContextStage(context)
        v == InputStage(m.inputs, input)
        a == checkAccess(m.accessPolicy, m.author, context.caller, now)
    IN  IF c.kind = "throw"
        THEN [outcome |-> c, stages |-> SubSeq(AllStages, 1, 1),
              executionInputs |-> <<>>]
        ELSE IF v.kind = "throw"
        THEN [outcome |-> v, stages |-> SubSeq(AllStages, 1, 2),
              executionInputs |-> <<>>]
        ELSE IF a.kind = "throw"
        THEN [outcome |-> a, stages |-> SubSeq(AllStages, 1, 3),
              executionInputs |-> <<>>]
        ELSE [outcome |-> Ok(ModuleSuccess(MockOutput)), stages |-> AllStages,
              executionInputs |-> prepareExecutionInputs(m.inputs, input, 1)]

\* execute(input, context) on module m at time now: the ModuleResponse, the
\* stages that ran and the module it leaves
execute(m, input, context, now) ==
    LET t == ExecuteTry(m, input, context, now)
        r == ExecuteCatch(t.outcome)
    IN  [response |-> r.value,
         stages |-> t.stages,
         executionInputs |-> t.executionInputs,
         module |-> [m EXCEPT !.executionCount = CountAfter(@, t.outcome)]]

\* getMetadata(): the metadata with the module's own executionCount;
\* updatedAt, which it takes from lastExecutionTime, is left out
getMetadata(m) ==
    [author |-> m.author, accessPolicy |-> m.accessPolicy,
     description |-> m.description, executionCount |-> m.executionCount]

\* a JSON string literal of the characters s
Quote(s) == <<"\"">> \o s \o <<"\"">>

\* JSON.stringify of a value, as the sequence of the tokens of its text
StringifyValue(v) ==
    CASE v.type = "string" -> Quote(v.str)
      [] v.type = "number" -> <<ToString(v.num)>>
      [] v.type = "boolean" -> <<"true">>
      [] v.type = "array" -> <<"[", ToString(v.num), "]">>
      [] OTHER -> <<"{", "}">>

RECURSIVE StringifyEntries(_, _)
\* the members of an object in insertion order, from entry i on
StringifyEntries(o, i) ==
    IF i > Len(o) THEN <<>>
    ELSE (IF i > 1 THEN <<",">> ELSE <<>>)
            \o Quote(<<o[i].key>>) \o <<":">> \o StringifyValue(o[i].value)
            \o StringifyEntries(o, i + 1)

\* JSON.stringify of an object
Stringify(o) == <<"{">> \o StringifyEntries(o, 1) \o <<"}">>

\* CryptoJS.SHA256(text).toString(): the digest stands for the text it was
\* computed from, a hash without collisions
SHA256(text) == <<"sha256(">> \o text \o <<")">>

\* a signature that leaves the timestamp out
SignatureData_noTimestamp(executionId, promptId, version, inputHash, outputHash, caller, timestamp) ==
    <<Entry("executionId", StrValue(<<executionId>>)),
      Entry("promptId", StrValue(<<promptId>>)),
      Entry("version", StrValue(<<version>>)),
      Entry("inputHash", StrValue(inputHash)),
      Entry("outputHash", StrValue(outputHash)),
      Entry("caller", StrValue(<<caller>>))>>

\* the signatureData object of generateExecutionSignature
SignatureData(executionId, promptId, version, inputHash, outputHash, caller, timestamp) ==
    <<Entry("executionId", StrValue(<<executionId>>)),
      Entry("promptId", StrValue(<<promptId>>)),
      Entry("version", StrValue(<<version>>)),
      Entry("inputHash", StrValue(inputHash)),
      Entry("outputHash", StrValue(outputHash)),
      Entry("caller", StrValue(<<caller>>)),
      Entry("timestamp", NumValue(timestamp))>>

\* generateExecutionSignature(executionId, input, output, context) of a
\* module whose definition has the id promptId and the version
generateExecutionSignature(executionId, promptId, version, input, output, caller, timestamp) ==
    SHA256(Stringify(SignatureData(executionId, promptId, version,
                                   SHA256(Stringify(input)),
                                   SHA256(Stringify(output)),
                                   caller, timestamp)))

\* the fields of this.metadata that the module keeps
MetadataFields == {"author", "accessPolicy", "description", "updatedAt"}

\* an author check that lets every caller through
IsAuthor_anyone(m, caller) == TRUE

\* caller === this.metadata.author
IsAuthor(m, caller) == caller = m.author

\* updateMetadata(newMetadata, caller) on module m at time now:
\* {...this.metadata, ...newMetadata, updatedAt: Date.now()}
updateMetadata(m, newMetadata, caller, now) ==
    IF ~IsAuthor(m, caller)
    THEN [outcome |-> ThrowError("ACCESS_DENIED",
                                 "Only the prompt author can update metadata",
                                 <<>>),
          module |-> m]
    ELSE [outcome |-> Ok("undefined"),
          module |->
              [f \in DOMAIN m |->
                  IF f = "updatedAt" THEN now
                  ELSE IF f \in MetadataFields /\ f \in DOMAIN newMetadata
                  THEN newMetadata[f]
                  ELSE m[f]]]

\* `{{${key}}}`: the key is one character of the text
Placeholder(key) == <<"{", "{", key, "}", "}">>

\* a match that looks at the braces only, whatever the key between them
MatchesAt_anyKey(s, pat, i) ==
    /\ i + Len(pat) - 1 <= Len(s)
    /\ \A k \in {1, 2, Len(pat) - 1, Len(pat)} : s[i + k - 1] = pat[k]

\* the text pat stands in s at position i
MatchesAt(s, pat, i) ==
    /\ i + Len(pat) - 1 <= Len(s)
    /\ \A k \in 1..Len(pat) : s[i + k - 1] = pat[k]

RECURSIVE GetSubstitution(_, _, _)
\* the replacement text of String.prototype.replace with a string as second
\* argument: $$ is a dollar sign, $& the matched text
GetSubstitution(rep, matched, i) ==
    IF i > Len(rep) THEN <<>>
    ELSE IF rep[i] = "$" /\ i < Len(rep) /\ rep[i + 1] = "$"
    THEN <<"$">> \o GetSubstitution(rep, matched, i + 2)
    ELSE IF rep[i] = "$" /\ i < Len(rep) /\ rep[i + 1] = "&"
    THEN matched \o GetSubstitution(rep, matched, i + 2)
    ELSE <<rep[i]>> \o GetSubstitution(rep, matched, i + 1)

RECURSIVE ReplaceAll(_, _, _, _)
\* s.replace(new RegExp(pat, 'g'), rep) from position i on
ReplaceAll(s, pat, rep, i) ==
    IF i > Len(s) THEN <<>>
    ELSE IF MatchesAt(s, pat, i)
    THEN GetSubstitution(rep, pat, 1) \o ReplaceAll(s, pat, rep, i + Len(pat))
    ELSE <<s[i]>> \o ReplaceAll(s, pat, rep, i + 1)

\* typeof value === 'string' ? value : JSON.stringify(value)
StringOf(v) == IF v.type = "string" THEN v.str ELSE StringifyValue(v)

RECURSIVE ReplaceEntries(_, _, _)
\* for (const [key, value] of Object.entries(o)) rendered = rendered.replace(...)
ReplaceEntries(rendered, o, i) ==
    IF i > Len(o) THEN rendered
    ELSE ReplaceEntries(ReplaceAll(rendered, Placeholder(o[i].key),
                                   StringOf(o[i].value), 1),
                        o, i + 1)

\* renderTemplate(inputs, dependencies) on a module with the template
renderTemplate(template, inputs, dependencies) ==
    ReplaceEntries(ReplaceEntries(template, inputs, 1), dependencies, 1)

\* resolveDependencies(inputs, context): resolved is returned empty on both
\* paths, context.previousOutputs is not read
resolveDependencies(dependencies, inputs, context) == <<>>

\* a word of \w+ characters: here the key of a placeholder
IsWord(c) == c \notin {"{", "}", "$", "&", " "}

RECURSIVE replaceVariables(_, _, _)
\* PromptTemplateEngine.replaceVariables(template, variables) from position
\* i on: one pass over the template with /\{\{(\w+)\}\}/g
replaceVariables(template, variables, i) ==
    IF i > Len(template) THEN <<>>
    ELSE IF /\ i + 4 <= Len(template)
            /\ IsWord(template[i + 2])
            /\ MatchesAt(template, Placeholder(template[i + 2]), i)
    THEN (IF template[i + 2] \in Keys(variables)
          THEN StringOf(Get(variables, template[i + 2]))
          ELSE Placeholder(template[i + 2]))
            \o replaceVariables(template, variables, i + 5)
    ELSE <<template[i]>> \o replaceVariables(template, variables, i + 1)

----------------------------------------------------------------------------
(* PromptRouter.getPromptModule and PromptRouter.executePrompt *)

\* `${promptId}@${version || 'latest'}`, the version left out
CacheKey(promptId) == <<promptId, "latest">>

\* a lookup that takes the vault's null for a definition
getPromptModule_nullAsModule(cache, promptId, env) ==
    [outcome |-> Ok("module"), cache |-> cache \cup {CacheKey(promptId)},
     lookups |-> IF CacheKey(promptId) \in cache THEN 0 ELSE 1,
     reply |-> IF CacheKey(promptId) \in cache THEN "none" ELSE env.vault]

\* getPromptModule: the cached module, or a vault lookup and a new module
getPromptModule(cache, promptId, env) ==
    IF CacheKey(promptId) \in cache
    THEN [outcome |-> Ok("module"), cache |-> cache, lookups |-> 0,
          reply |-> "none"]
    ELSE IF env.vault = "throws"
    THEN [outcome |-> Throw("BLOCKCHAIN_ERROR"), cache |-> cache, lookups |-> 1,
          reply |-> env.vault]
    ELSE IF env.vault = "null"
    THEN [outcome |-> Throw("PROMPT_NOT_FOUND"), cache |-> cache, lookups |-> 1,
          reply |-> env.vault]
    ELSE IF env.vault = "invalid_definition"
    THEN [outcome |-> Throw("VALIDATION_ERROR"), cache |-> cache, lookups |-> 1,
          reply |-> env.vault]
    ELSE [outcome |-> Ok("module"),
          cache |-> cache \cup {CacheKey(promptId)}, lookups |-> 1,
          reply |-> env.vault]

PromptResult(success, output, code, details, signature) ==
    [success |-> success, output |-> output, code |-> code,
     details |-> details, signature |-> signature]

\* the try block of executePrompt, given the outcomes of its two calls;
\* vaultClient.recordExecution sits in a try of its own whose catch only
\* warns, so it adds no outcome
ExecutePromptBody(gm, me) ==
    IF gm.kind = "throw" THEN Throw(gm.error)
    ELSE IF me.kind = "throw" THEN Throw(me.error)
    ELSE IF me.value.success
    THEN Ok(PromptResult(TRUE, me.value.output, "none", "none", me.value.signature))
    ELSE Ok(PromptResult(FALSE, me.value.output, "EXECUTION_FAILED",
                         me.value.code, me.value.signature))

\* the catch block of executePrompt
ExecutePromptCatch(body) ==
    IF body.kind = "throw"
    THEN Ok(PromptResult(FALSE, NullValue,
                         IF IsPromptHubError(body.error)
                         THEN body.error ELSE "EXECUTION_FAILED",
                         body.error, FALSE))
    ELSE body

\* executePrompt(promptId, inputs, context): its outcome, the outcome of the
\* module.execute call it made, and the router and module state it leaves
executePrompt(cache, counts, promptId, ctx, env) ==
    LET gm == getPromptModule(cache, promptId, env)
        key == CacheKey(promptId)
        me == IF gm.outcome.kind = "throw" THEN NotCalled ELSE ModuleExecute(ctx, env)
        old == IF key \in DOMAIN counts THEN counts[key] ELSE 0
    IN  [outcome |-> ExecutePromptCatch(ExecutePromptBody(gm.outcome, me)),
         module |-> me,
         cache |-> gm.cache,
         lookups |-> gm.lookups,
         reply |-> gm.reply,
         counts |-> IF gm.outcome.kind = "throw" THEN counts
                    ELSE [k \in (DOMAIN counts) \cup {key} |->
                            IF k = key THEN CountAfter(old, me) ELSE counts[k]]]

----------------------------------------------------------------------------
(* PromptRouter.executeDag *)

NoNode == [id |-> "none", inputs |-> EmptyObj]

DagReturn(success, nodeId, error) ==
    Ok([success |-> success, nodeId |-> nodeId, error |-> error])

\* an outer catch that throws the error on
OuterCatch_rethrow(error) == Throw(error)

\* the outer catch of executeDag: error.nodeId is 'validation'
OuterCatch(error) == DagReturn(FALSE, "validation", error)

\* the catch inside the node loop: error.nodeId is the node's id
InnerCatch(nodeId, error) == DagReturn(FALSE, nodeId, error)

\* a recording that keeps successful results only
RecordResult_dropFailed(res, nodeId, nodeResult) ==
    IF nodeResult.success
    THEN [k \in (DOMAIN res) \cup {nodeId} |->
            IF k = nodeId THEN nodeResult ELSE res[k]]
    ELSE res

\* results[node.id] = nodeResult
RecordResult(res, nodeId, nodeResult) ==
    [k \in (DOMAIN res) \cup {nodeId} |->
        IF k = nodeId THEN nodeResult ELSE res[k]]

\* the input map handed to executePrompt for the node, kept for inspection
LogInputs(log, nodeId, nodeInputs) ==
    [k \in (DOMAIN log) \cup {nodeId} |->
        IF k = nodeId THEN nodeInputs ELSE log[k]]

\* a loop that leaves executionOrder as it was
PushOrder_skip(order, nodeId) == order

\* executionOrder.push(node.id)
PushOrder(order, nodeId) == Append(order, nodeId)

\* a loop that never takes the failure branch
NodeFailed_never(nodeResult) == FALSE

\* if (!nodeResult.success)
NodeFailed(nodeResult) == ~nodeResult.success

\* validateDAG(dag), then topologicalSort(dag), inside the outer try
SortedOrThrow(g) ==
    LET v == validateDAG(g)
    IN  IF v.kind = "throw" THEN v ELSE topologicalSort(g)

\* executeDag up to the node loop
Validate ==
    /\ pc = "called"
    /\ call.fn = "executeDag"
    /\ LET s == SortedOrThrow(dag)
       IN  IF s.kind = "throw"
           THEN /\ ret' = OuterCatch(s.error)
                /\ pc' = "returned"
                /\ UNCHANGED sortedNodes
           ELSE /\ sortedNodes' = s.value
                /\ pc' = "loop"
                /\ UNCHANGED ret
    /\ UNCHANGED <<call, dag, rootInputs, idx, current, results, executionOrder,
                   nodeInputsLog, started, moduleCache, executionCount,
                   vaultCalls, vaultReply, promptRet, moduleRet>>
    /\ UNCHANGED <<moduleVars, raceVars, toolVars>>

\* one iteration of the node loop up to the await of executePrompt
StartNode ==
    /\ pc = "loop"
    /\ idx <= Len(sortedNodes)
    /\ LET node == NodeById(dag, sortedNodes[idx])
           nodeInputs == prepareNodeInputs(node, rootInputs, results)
       IN  /\ current' = [id |-> node.id, inputs |-> nodeInputs]
           /\ started' = Append(started, node.id)
           /\ nodeInputsLog' = LogInputs(nodeInputsLog, node.id, nodeInputs)
    /\ pc' = "inflight"
    /\ UNCHANGED <<call, dag, rootInputs, sortedNodes, idx, results,
                   executionOrder, moduleCache, executionCount, vaultCalls, vaultReply,
                   promptRet, moduleRet, ret>>
    /\ UNCHANGED <<moduleVars, raceVars, toolVars>>

\* executePrompt settles: the rest of the iteration.  nodeContext has a
\* string caller (context?.caller || 'dag-executor'), a numeric timestamp and
\* a fresh requestId, so the context the pipeline sees is valid
FinishNode ==
    /\ pc = "inflight"
    /\ \E env \in Envs :
        LET node == NodeById(dag, current.id)
            r == executePrompt(moduleCache, executionCount, node.promptId,
                               "valid", env)
        IN  /\ moduleCache' = r.cache
            /\ executionCount' = r.counts
            /\ vaultCalls' = vaultCalls + r.lookups
            /\ vaultReply' = r.reply
            /\ promptRet' = r.outcome
            /\ moduleRet' = r.module
            /\ IF r.outcome.kind = "throw"
               THEN /\ ret' = InnerCatch(node.id, r.outcome.error)
                    /\ pc' = "returned"
                    /\ UNCHANGED <<results, executionOrder, idx>>
               ELSE /\ results' = RecordResult(results, node.id, r.outcome.value)
                    /\ executionOrder' = PushOrder(executionOrder, node.id)
                    /\ IF NodeFailed(r.outcome.value)
                       THEN /\ ret' = DagReturn(FALSE, node.id, r.outcome.value.code)
                            /\ pc' = "returned"
                            /\ UNCHANGED idx
                       ELSE /\ idx' = idx + 1
                            /\ pc' = "loop"
                            /\ UNCHANGED ret
    /\ current' = NoNode
    /\ UNCHANGED <<call, dag, rootInputs, sortedNodes, nodeInputsLog, started>>
    /\ UNCHANGED <<moduleVars, raceVars, toolVars>>

\* the loop is over: return success
ReturnSuccess ==
    /\ pc = "loop"
    /\ idx > Len(sortedNodes)
    /\ ret' = DagReturn(TRUE, "none", "none")
    /\ pc' = "returned"
    /\ UNCHANGED <<call, dag, rootInputs, sortedNodes, idx, current, results,
                   executionOrder, nodeInputsLog, started, moduleCache,
                   executionCount, vaultCalls, vaultReply, promptRet, moduleRet>>
    /\ UNCHANGED <<moduleVars, raceVars, toolVars>>

----------------------------------------------------------------------------
(* Direct calls of PromptRouter.executePrompt and PromptModule.execute *)

ExecutePromptCall ==
    /\ pc = "called"
    /\ call.fn = "executePrompt"
    /\ \E env \in Envs :
        LET r == executePrompt(moduleCache, executionCount, call.promptId,
                               call.ctx, env)
        IN  /\ moduleCache' = r.cache
            /\ executionCount' = r.counts
            /\ vaultCalls' = vaultCalls + r.lookups
            /\ vaultReply' = r.reply
            /\ promptRet' = r.outcome
            /\ moduleRet' = r.module
            /\ ret' = r.outcome
    /\ pc' = "returned"
    /\ UNCHANGED <<call, dag, rootInputs, sortedNodes, idx, current, results,
                   executionOrder, nodeInputsLog, started>>
    /\ UNCHANGED <<moduleVars, raceVars, toolVars>>

\* the module of a direct PromptModule.execute call, which is in no cache
OwnModule == <<"own", "module">>

\* execute on a module the caller constructed itself
ExecuteCall ==
    /\ pc = "called"
    /\ call.fn = "execute"
    /\ \E env \in Envs :
        LET r == ModuleExecute(call.ctx, env)
            old == IF OwnModule \in DOMAIN executionCount
                   THEN executionCount[OwnModule] ELSE 0
        IN  /\ executionCount' =
                   [k \in (DOMAIN executionCount) \cup {OwnModule} |->
                       IF k = OwnModule THEN CountAfter(old, r) ELSE executionCount[k]]
            /\ moduleRet' = r
            /\ ret' = r
    /\ pc' = "returned"
    /\ UNCHANGED <<call, dag, rootInputs, sortedNodes, idx, current, results,
                   executionOrder, nodeInputsLog, started, moduleCache,
                   vaultCalls, vaultReply, promptRet>>
    /\ UNCHANGED <<moduleVars, raceVars, toolVars>>

----------------------------------------------------------------------------
(* Specifications *)

\* the arguments of the calls made on one PromptModule
MaxCalls == 2
MaxTime == 2

Author == "alice"
Callers == {"alice", "bob"}

TextParam == [type |-> "string", required |-> TRUE]

FormatParam ==
    [type |-> "string", required |-> FALSE, default |-> StrValue(<<"a">>),
     enum |-> << <<"a">>, <<"b">> >>]

\* definition.inputs of the module under execution
ModuleSchemas ==
    { <<Entry("text", TextParam)>>,
      <<Entry("text", TextParam), Entry("format", FormatParam)>> }

ModuleInputs ==
    { <<>>,
      <<Entry("text", StrValue(<<"a">>))>>,
      <<Entry("text", NumValue(1))>>,
      <<Entry("text", StrValue(<<"a">>)), Entry("extra", StrValue(<<"b">>))>>,
      <<Entry("text", StrValue(<<"a">>)), Entry("format", StrValue(<<"c">>))>>,
      <<Entry("format", StrValue(<<"c">>))>> }

\* an AccessPolicy: whitelist and expirationDate are optional
Policy(type, whitelist, expirationDate) ==
    Assign(Assign(Obj1("type", type), whitelist), expirationDate)

WhitelistChoices ==
    {EmptyObj, Obj1("whitelist", {}), Obj1("whitelist", {"bob"})}

ExpirationChoices ==
    {EmptyObj} \cup {Obj1("expirationDate", t) : t \in 0..2}

AccessPolicies ==
    { Policy(t, EmptyObj, e) :
        t \in {"public", "private", "token_gated", "nft_gated"},
        e \in ExpirationChoices }
        \cup { Policy("custom", w, e) :
                 w \in WhitelistChoices, e \in ExpirationChoices }

\* a PromptModule after construction: executionCount = 0
NewModule(inputs, author, accessPolicy) ==
    [inputs |-> inputs, author |-> author, accessPolicy |-> accessPolicy,
     description |-> "d0", updatedAt |-> 0, executionCount |-> 0]

ContextOf(caller) == [caller |-> caller, timestamp |-> 0, requestId |-> "r"]

\* execution contexts: well formed, without caller, without requestId
ExecutionContexts ==
    { ContextOf(c) : c \in Callers }
        \cup { [timestamp |-> 0, requestId |-> "r"],
               [caller |-> "bob", timestamp |-> 0] }

\* execution contexts with the empty string as caller, as requestId, as both
EmptyStringContexts ==
    { [caller |-> "", timestamp |-> 0, requestId |-> "r"],
      [caller |-> "alice", timestamp |-> 0, requestId |-> ""],
      [caller |-> "", timestamp |-> 0, requestId |-> ""] }

NoExec ==
    [called |-> FALSE, input |-> <<>>, context |-> ContextOf(Author),
     holds |-> FALSE, now |-> 0, countBefore |-> 0,
     response |-> ModuleFailure("none"), stages |-> <<>>,
     executionInputs |-> <<>>]

NoValidation ==
    [called |-> FALSE, input |-> <<>>,
     result |-> [valid |-> TRUE, errors |-> <<>>, warnings |-> <<>>]]

\* no updateMetadata call was made
NoUpdate ==
    [called |-> FALSE, caller |-> Author, newMetadata |-> EmptyObj,
     outcome |-> NotCalled,
     before |-> NewModule(<<>>, Author, Obj1("type", "public")),
     after |-> NewModule(<<>>, Author, Obj1("type", "public"))]

\* the arguments of one generateExecutionSignature call
SignArgs(executionId, promptId, version, input, output, caller, timestamp) ==
    [executionId |-> executionId, promptId |-> promptId, version |-> version,
     input |-> input, output |-> output, caller |-> caller,
     timestamp |-> timestamp]

\* no signature was computed
NoSigning ==
    [called |-> FALSE,
     first |-> SignArgs("e1", "p1", "1.0.0", <<>>, <<>>, "alice", 0),
     second |-> SignArgs("e1", "p1", "1.0.0", <<>>, <<>>, "alice", 0),
     signatures |-> <<>>]

\* nothing was rendered
NoRendering ==
    [called |-> FALSE, template |-> <<>>, inputs |-> <<>>, input |-> <<>>,
     dependencies |-> <<>>, previousOutputs |-> <<>>,
     executionInputs |-> <<>>, resolved |-> <<>>, rendered |-> <<>>,
     engine |-> <<>>]

\* executePrompt was not called
NoRouted ==
    [called |-> FALSE, input |-> <<>>, context |-> <<>>, promptId |-> "none",
     version |-> "none", moduleExecutionId |-> "none",
     result |-> [success |-> FALSE, output |-> <<>>, executionId |-> "none",
                 signature |-> <<>>]]

\* a server after construction, no tool called
NoServer ==
    [loadedModules |-> EmptyObj, moduleCache |-> EmptyObj, calls |-> 0,
     executed |-> [p \in {"p1", "p2"} |-> 0],
     info |-> [called |-> FALSE, promptId |-> "none", executionCount |-> 0,
               executed |-> 0]]

\* an ExecutionContextManager after construction
NoManager ==
    [contexts |-> EmptyObj, executionHistory |-> EmptyObj,
     created |-> [called |-> FALSE, contextId |-> <<>>, before |-> 0,
                  after |-> 0, replaced |-> FALSE, historyLost |-> FALSE]]

\* nothing is rendered, no prompt is routed, no tool is called, no context
\* is created
IdleTools ==
    /\ rendering = NoRendering
    /\ routed = NoRouted
    /\ server = NoServer
    /\ manager = NoManager

\* no PromptModule is under test
IdleModule ==
    /\ pm = NewModule(<<>>, Author, Policy("public", EmptyObj, EmptyObj))
    /\ clock = 1
    /\ callNo = 0
    /\ successes = 0
    /\ lastExec = NoExec
    /\ validation = NoValidation
    /\ lastUpdate = NoUpdate
    /\ signing = NoSigning

\* no concurrent executePrompt call is in flight
IdleRace ==
    /\ inflight = <<>>
    /\ modules = <<>>
    /\ cached = EmptyObj

InitRun ==
    /\ pc = "called"
    /\ sortedNodes = <<>>
    /\ idx = 1
    /\ current = NoNode
    /\ results = EmptyObj
    /\ executionOrder = <<>>
    /\ nodeInputsLog = EmptyObj
    /\ started = <<>>
    /\ moduleCache = {}
    /\ executionCount = [k \in moduleCache |-> 0]
    /\ vaultCalls = 0
    /\ vaultReply = "none"
    /\ promptRet = NotCalled
    /\ moduleRet = NotCalled
    /\ ret = NotCalled

DagCall == [fn |-> "executeDag", promptId |-> "none", ctx |-> "undefined"]

\* an executeDag call with a DAGDefinition as the interface types it: every
\* node carries a dependencies array
Init ==
    /\ call = DagCall
    /\ \E ids \in IdLists :
         \E d \in DepChoices(Len(ids), MaxEdges, {}) : dag = DagOf(ids, d, {})
    /\ rootInputs \in RootInputSet
    /\ InitRun
    /\ IdleModule
    /\ IdleRace
    /\ IdleTools

NextDag == Validate \/ StartNode \/ FinishNode \/ ReturnSuccess

Spec == Init /\ [][NextDag]_vars

\* a call of any of the three entry points, with arguments of any shape: a
\* node of the DAG may lack its dependencies list
InitApi ==
    /\ \/ /\ call = DagCall
          /\ \E ids \in IdLists :
               \E m \in SUBSET (1..Len(ids)) :
                  \E d \in DepChoices(Len(ids), MaxEdges, m) :
                     dag = DagOf(ids, d, m)
          /\ rootInputs \in RootInputSet
       \/ /\ call \in [fn : {"executePrompt", "execute"},
                        promptId : {"p1", "p2"}, ctx : Contexts]
          /\ dag = <<>>
          /\ rootInputs = EmptyObj
    /\ InitRun
    /\ IdleModule
    /\ IdleRace
    /\ IdleTools

NextApi == NextDag \/ ExecutePromptCall \/ ExecuteCall

SpecApi == InitApi /\ [][NextApi]_vars

\* prepareNodeInputs applied to a node, root inputs and previous results
PrepareCall ==
    /\ pc = "called"
    /\ call.fn = "prepareNodeInputs"
    /\ nodeInputsLog' =
           LogInputs(nodeInputsLog, dag[1].id,
                     prepareNodeInputs(dag[1], rootInputs, results))
    /\ pc' = "returned"
    /\ UNCHANGED <<call, dag, rootInputs, sortedNodes, idx, current, results,
                   executionOrder, started, moduleCache, executionCount,
                   vaultCalls, vaultReply, promptRet, moduleRet, ret>>
    /\ UNCHANGED <<moduleVars, raceVars, toolVars>>

\* the results a dependency may have left in previousResults
PreviousResultSet ==
    { PromptResult(TRUE, o, "none", "none", TRUE) :
        o \in Outputs \cup {NullValue, ArrayValue} }
        \cup { PromptResult(FALSE, NullValue, "EXECUTION_FAILED", "INVALID_INPUT", FALSE) }

PreviousResultMaps == UNION { [S -> PreviousResultSet] : S \in SUBSET {"A", "B"} }

InitPrepare ==
    /\ call = [fn |-> "prepareNodeInputs", promptId |-> "none", ctx |-> "undefined"]
    /\ dag \in { <<[Node("C", TRUE, d) EXCEPT !.inputs = lit]>> :
                    d \in {x \in DepLists : "C" \notin Range(x)},
                    lit \in {EmptyObj, Obj1("x", "1"), Obj1("y", "1")} }
    /\ rootInputs \in RootInputSet
    /\ pc = "called"
    /\ sortedNodes = <<>>
    /\ idx = 1
    /\ current = NoNode
    /\ results \in PreviousResultMaps
    /\ executionOrder = <<>>
    /\ nodeInputsLog = EmptyObj
    /\ started = <<>>
    /\ moduleCache = {}
    /\ executionCount = EmptyObj
    /\ vaultCalls = 0
    /\ vaultReply = "none"
    /\ promptRet = NotCalled
    /\ moduleRet = NotCalled
    /\ ret = NotCalled
    /\ IdleModule
    /\ IdleRace
    /\ IdleTools

SpecPrepare == InitPrepare /\ [][PrepareCall]_vars

\* no call of the router is made
IdleRouter ==
    /\ call = [fn |-> "none", promptId |-> "none", ctx |-> "undefined"]
    /\ dag = <<>>
    /\ rootInputs = EmptyObj
    /\ InitRun

\* the answers of the external holding check: there is one to give only
\* for a gated policy
HoldingAnswers(policy) ==
    IF policy.type \in {"token_gated", "nft_gated"} THEN BOOLEAN ELSE {FALSE}

\* module.execute(input, context) on pm; holds is what the external token
\* or NFT holding check would answer for the caller
ExecuteWith(inputs, contexts) ==
    /\ callNo < MaxCalls
    /\ \E input \in inputs, context \in contexts,
          holds \in HoldingAnswers(pm.accessPolicy) :
         LET r == execute(pm, input, context, clock)
         IN  /\ pm' = r.module
             /\ successes' = successes + (IF r.response.success THEN 1 ELSE 0)
             /\ lastExec' =
                    [called |-> TRUE, input |-> input, context |-> context,
                     holds |-> holds, now |-> clock,
                     countBefore |-> getMetadata(pm).executionCount,
                     response |-> r.response, stages |-> r.stages,
                     executionInputs |-> r.executionInputs]
    /\ callNo' = callNo + 1
    /\ UNCHANGED <<clock, validation, lastUpdate, signing, dagVars, toolVars, raceVars>>

Execute == ExecuteWith(ModuleInputs, ExecutionContexts)

\* execute with a context that has an empty string
ExecuteEmptyString == ExecuteWith(ModuleInputs, EmptyStringContexts)

\* time passes between two calls
Tick ==
    /\ clock < MaxTime
    /\ clock' = clock + 1
    /\ UNCHANGED <<pm, callNo, successes, lastExec, validation, lastUpdate,
                   signing, dagVars, toolVars, raceVars>>

\* a sequence of execute calls on one module
InitModule ==
    /\ \E inputs \in ModuleSchemas, policy \in AccessPolicies :
         pm = NewModule(inputs, Author, policy)
    /\ clock = 1
    /\ callNo = 0
    /\ successes = 0
    /\ lastExec = NoExec
    /\ validation = NoValidation
    /\ lastUpdate = NoUpdate
    /\ signing = NoSigning
    /\ IdleRouter
    /\ IdleRace
    /\ IdleTools

NextModule == Execute \/ Tick

SpecModule == InitModule /\ [][NextModule]_vars

NextContext == ExecuteEmptyString \/ Tick

\* a sequence of execute calls with empty strings in the context
SpecContext == InitModule /\ [][NextContext]_vars

\* concurrent executePrompt calls on one router
MaxCallers == 2
CallerIds == 1..MaxCallers

NoModule == 0

Waiting ==
    [pc |-> "idle", promptId |-> "none", module |-> NoModule, missed |-> FALSE,
     reply |-> "none", result |-> NotCalled, order |-> 0]

\* what the vault holds for a prompt id: the same entry at every fetch
VaultData(promptId) == [definition |-> promptId, metadata |-> promptId]

\* new PromptModule(promptData.definition, promptData.metadata)
ConstructModule(key, data) ==
    [key |-> key, definition |-> data.definition, metadata |-> data.metadata,
     executionCount |-> 0]

\* a cache that drops what it is given
CacheSet_drop(c, key, ref) == c

\* this.moduleCache.set(cacheKey, module)
CacheSet(c, key, ref) ==
    [k \in (DOMAIN c) \cup {key} |-> IF k = key THEN ref ELSE c[k]]

\* getPromptModule after vaultClient.getPrompt has settled with reply: the
\* outcome, the module objects and the cache
AfterFetch(c, ms, promptId, reply) ==
    IF reply = "throws"
    THEN [outcome |-> Throw("BLOCKCHAIN_ERROR"), modules |-> ms, cached |-> c,
          module |-> NoModule]
    ELSE IF reply = "null"
    THEN [outcome |-> Throw("PROMPT_NOT_FOUND"), modules |-> ms, cached |-> c,
          module |-> NoModule]
    ELSE IF reply = "invalid_definition"
    THEN [outcome |-> Throw("VALIDATION_ERROR"), modules |-> ms, cached |-> c,
          module |-> NoModule]
    ELSE [outcome |-> Ok("module"),
          modules |-> Append(ms, ConstructModule(CacheKey(promptId),
                                                 VaultData(promptId))),
          cached |-> CacheSet(c, CacheKey(promptId), Len(ms) + 1),
          module |-> Len(ms) + 1]

\* the number of executePrompt calls made so far
CallsBegun == Cardinality({j \in CallerIds : inflight[j].pc # "idle"})

\* executePrompt is called: getPromptModule finds the module in the cache,
\* or awaits vaultClient.getPrompt; order is the position of the call among
\* the calls of a sequential use, 0 where calls may overlap
Lookup(i, order) ==
    /\ inflight[i].pc = "idle"
    /\ \E promptId \in {"p1", "p2"} :
         inflight' =
             [inflight EXCEPT ![i] =
                 IF CacheKey(promptId) \in DOMAIN cached
                 THEN [@ EXCEPT !.pc = "loaded", !.promptId = promptId,
                                !.module = cached[CacheKey(promptId)],
                                !.order = order]
                 ELSE [@ EXCEPT !.pc = "fetching", !.promptId = promptId,
                                !.missed = TRUE,
                                !.order = order]]
    /\ UNCHANGED <<modules, cached, dagVars, toolVars, moduleVars>>

Begin(i) == Lookup(i, 0)

\* vaultClient.getPrompt settles: the module is built and cached, or
\* executePrompt returns the failure
FetchReturns(i) ==
    /\ inflight[i].pc = "fetching"
    /\ \E reply \in VaultReplies :
         LET r == AfterFetch(cached, modules, inflight[i].promptId, reply)
         IN  /\ modules' = r.modules
             /\ cached' = r.cached
             /\ inflight' =
                    [inflight EXCEPT ![i] =
                        IF r.outcome.kind = "throw"
                        THEN [@ EXCEPT !.pc = "done", !.reply = reply,
                                       !.result = ExecutePromptCatch(
                                           ExecutePromptBody(r.outcome, NotCalled))]
                        ELSE [@ EXCEPT !.pc = "loaded", !.reply = reply,
                                       !.module = r.module]]
    /\ UNCHANGED <<dagVars, toolVars, moduleVars>>

\* module.execute runs up to its first await
ExecuteStarts(i) ==
    /\ inflight[i].pc = "loaded"
    /\ inflight' = [inflight EXCEPT ![i].pc = "executing"]
    /\ UNCHANGED <<modules, cached, dagVars, toolVars, moduleVars>>

\* module.execute settles: this.executionCount++ on the module the call
\* holds, and executePrompt returns
ExecuteReturns(i) ==
    /\ inflight[i].pc = "executing"
    /\ \E ctx \in Contexts, env \in Envs :
         LET me == ModuleExecute(ctx, env)
             m == inflight[i].module
         IN  /\ env.vault = "found"
             /\ modules' =
                    [modules EXCEPT ![m].executionCount = CountAfter(@, me)]
             /\ inflight' =
                    [inflight EXCEPT ![i] =
                        [@ EXCEPT !.pc = "done",
                                  !.result = ExecutePromptCatch(
                                      ExecutePromptBody(Ok("module"), me))]]
    /\ UNCHANGED <<cached, dagVars, toolVars, moduleVars>>

InitRace ==
    /\ inflight = [i \in CallerIds |-> Waiting]
    /\ modules = <<>>
    /\ cached = EmptyObj
    /\ IdleRouter
    /\ IdleModule
    /\ IdleTools

NextRace ==
    \E i \in CallerIds :
        Begin(i) \/ FetchReturns(i) \/ ExecuteStarts(i) \/ ExecuteReturns(i)

SpecRace == InitRace /\ [][NextRace]_vars

\* executePrompt is called while no other call is in flight
BeginAlone(i) ==
    /\ \A j \in CallerIds : inflight[j].pc \in {"idle", "done"}
    /\ Lookup(i, CallsBegun + 1)

NextSequential ==
    \E i \in CallerIds :
        BeginAlone(i) \/ FetchReturns(i) \/ ExecuteStarts(i) \/ ExecuteReturns(i)

\* executePrompt calls on one router, each awaited before the next is made
SpecSequential == InitRace /\ [][NextSequential]_vars

\* the newMetadata arguments of updateMetadata
MetadataUpdates ==
    { EmptyObj,
      Obj1("description", "d1"),
      Obj1("accessPolicy", Policy("private", EmptyObj, EmptyObj)),
      Obj1("author", "bob"),
      Assign(Obj1("author", "bob"), Obj1("description", "d1")) }

\* module.updateMetadata(newMetadata, caller) on pm
UpdateMetadata ==
    /\ \E newMetadata \in MetadataUpdates, caller \in Callers :
         LET r == updateMetadata(pm, newMetadata, caller, clock)
         IN  /\ pm' = r.module
             /\ lastUpdate' =
                    [called |-> TRUE, caller |-> caller,
                     newMetadata |-> newMetadata, outcome |-> r.outcome,
                     before |-> pm, after |-> r.module]
    /\ UNCHANGED <<clock, callNo, successes, lastExec, validation, signing,
                   dagVars, toolVars, raceVars>>

\* one public module authored by alice
InitMetadata ==
    /\ pm = NewModule(<<Entry("text", TextParam)>>, Author,
                      Policy("public", EmptyObj, EmptyObj))
    /\ clock = 1
    /\ callNo = 0
    /\ successes = 0
    /\ lastExec = NoExec
    /\ validation = NoValidation
    /\ lastUpdate = NoUpdate
    /\ signing = NoSigning
    /\ IdleRouter
    /\ IdleRace
    /\ IdleTools

\* execute by alice or bob, with a valid input or an empty one
ExecuteByCaller ==
    ExecuteWith({<<>>, <<Entry("text", StrValue(<<"a">>))>>},
                {ContextOf(c) : c \in Callers})

NextMetadata == UpdateMetadata \/ ExecuteByCaller \/ Tick

\* updateMetadata and execute calls on one module
SpecMetadata == InitMetadata /\ [][NextMetadata]_vars

\* parameter specs for validateInput
LengthParam == [type |-> "string", minLength |-> 2, maxLength |-> 3]

PatternParam ==
    [type |-> "string", required |-> FALSE, pattern |-> "^a",
     enum |-> << <<"a">>, <<"a", "b">> >>]

NumberParam == [type |-> "number", required |-> TRUE, minimum |-> 1, maximum |-> 2]
ArrayParam == [type |-> "array", maxItems |-> 1]
BooleanParam == [type |-> "boolean", required |-> TRUE]
ObjectParam == [type |-> "object"]

\* definition.inputs with no, one or two parameters
ValidationSchemas ==
    LET first == {TextParam, LengthParam, PatternParam}
        second == {NumberParam, ArrayParam, BooleanParam, ObjectParam}
    IN  {<<>>} \cup { <<Entry("text", p)>> : p \in first }
            \cup { <<Entry("text", p), Entry("n", q)>> : p \in first, q \in second }

\* a key left out, or present with one of the values
Optional(key, values) == {<<>>} \cup { <<Entry(key, v)>> : v \in values }

ValidationInputs ==
    { a \o b \o c :
        a \in Optional("text", {StrValue(<<>>), StrValue(<<"a">>),
                                StrValue(<<"a", "b">>), StrValue(<<"b">>),
                                StrValue(<<"a", "b", "c", "d">>), NumValue(1)}),
        b \in Optional("n", {NumValue(0), NumValue(2), ArrValue(0), ArrValue(2),
                             BoolValue, ObjValue}),
        c \in Optional("extra", {StrValue(<<"a">>)}) }

\* module.validateInput(input) on pm
ValidateInputCall ==
    /\ \E input \in ValidationInputs :
         validation' = [called |-> TRUE, input |-> input,
                        result |-> validateInput(pm.inputs, input)]
    /\ UNCHANGED <<pm, clock, callNo, successes, lastExec, lastUpdate, signing,
                   dagVars, toolVars, raceVars>>

InitValidate ==
    /\ \E inputs \in ValidationSchemas :
         pm = NewModule(inputs, Author, Policy("public", EmptyObj, EmptyObj))
    /\ clock = 1
    /\ callNo = 0
    /\ successes = 0
    /\ lastExec = NoExec
    /\ validation = NoValidation
    /\ lastUpdate = NoUpdate
    /\ signing = NoSigning
    /\ IdleRouter
    /\ IdleRace
    /\ IdleTools

SpecValidate == InitValidate /\ [][ValidateInputCall]_vars

\* the values of InputParameterSchema's type
ParameterTypes == {"string", "number", "boolean", "array", "object"}

\* InputParameterSchema.safeParse(param).success: type is one of the five
\* names; required, default and the constraints are optional, and no rule
\* relates one of them to another
InputParameterSchemaOk(param) ==
    /\ Has(param, "type")
    /\ param.type \in ParameterTypes
    /\ Has(param, "required") => param.required \in BOOLEAN

\* new PromptModule(definition, metadata): the definition is parsed and,
\* when the parse succeeds, stored as it was given
constructor(inputs, author, accessPolicy) ==
    IF \A i \in 1..Len(inputs) : InputParameterSchemaOk(inputs[i].value)
    THEN Ok(NewModule(inputs, author, accessPolicy))
    ELSE ThrowError("VALIDATION_ERROR", "Invalid prompt definition", <<>>)

RequiredDefaultParam ==
    [type |-> "string", required |-> TRUE, default |-> StrValue(<<"a">>)]

DateParam == [type |-> "date", required |-> TRUE]

\* definitions handed to the constructor
LoadCandidates ==
    LET first == {TextParam, FormatParam, RequiredDefaultParam, DateParam}
        second == {NumberParam, RequiredDefaultParam, DateParam}
    IN  { <<Entry("text", p)>> : p \in first }
            \cup { <<Entry("text", p), Entry("n", q)>> : p \in first, q \in second }

\* a module the constructor accepted
InitLoad ==
    /\ \E inputs \in LoadCandidates :
         LET loaded == constructor(inputs, Author,
                                   Policy("public", EmptyObj, EmptyObj))
         IN  /\ loaded.kind = "return"
             /\ pm = loaded.value
    /\ clock = 1
    /\ callNo = 0
    /\ successes = 0
    /\ lastExec = NoExec
    /\ validation = NoValidation
    /\ lastUpdate = NoUpdate
    /\ signing = NoSigning
    /\ IdleRouter
    /\ IdleRace
    /\ IdleTools

\* validateInput calls on a module the constructor accepted
SpecLoad == InitLoad /\ [][ValidateInputCall]_vars

----------------------------------------------------------------------------
(* generateExecutionSignature over pairs of argument lists *)

\* the values each argument of a signature is drawn from
SignChoices ==
    [executionId |-> {"e1", "e2"},
     promptId |-> {"p1", "p2"},
     version |-> {"1.0.0", "1.0.1"},
     input |-> {<<>>,
                <<Entry("text", StrValue(<<"a">>))>>,
                <<Entry("text", StrValue(<<"a", "b">>))>>,
                <<Entry("text", StrValue(<<"a">>)), Entry("count", NumValue(1))>>},
     output |-> {<<Entry("result", StrValue(<<"a">>))>>,
                 <<Entry("result", StrValue(<<"b">>))>>},
     caller |-> {"alice", "bob"},
     timestamp |-> 0..MaxTime]

\* the signature of one argument list
SignatureOf(a) ==
    generateExecutionSignature(a.executionId, a.promptId, a.version, a.input,
                               a.output, a.caller, a.timestamp)

\* both argument lists are signed
Sign ==
    /\ ~signing.called
    /\ signing' = [signing EXCEPT !.called = TRUE,
                                  !.signatures = <<SignatureOf(signing.first),
                                                   SignatureOf(signing.second)>>]
    /\ UNCHANGED <<dagVars, toolVars, raceVars, pm, clock, callNo, successes, lastExec,
                   validation, lastUpdate>>

\* two argument lists that differ in at most one argument
InitSign ==
    /\ IdleRouter
    /\ IdleRace
    /\ IdleTools
    /\ pm = NewModule(<<>>, Author, Policy("public", EmptyObj, EmptyObj))
    /\ clock = 0
    /\ callNo = 0
    /\ successes = 0
    /\ lastExec = NoExec
    /\ validation = NoValidation
    /\ lastUpdate = NoUpdate
    /\ \E e \in SignChoices.executionId, p \in SignChoices.promptId,
          v \in SignChoices.version, i \in SignChoices.input,
          o \in SignChoices.output, c \in SignChoices.caller,
          t \in SignChoices.timestamp :
          \E f \in DOMAIN SignChoices :
             \E x \in SignChoices[f] :
                signing = [NoSigning EXCEPT
                              !.first = SignArgs(e, p, v, i, o, c, t),
                              !.second = [SignArgs(e, p, v, i, o, c, t)
                                             EXCEPT ![f] = x]]

SpecSign == InitSign /\ [][Sign]_vars

----------------------------------------------------------------------------
(* validateInput on parameters with a length or item-count bound *)

\* the values of a declared bound, 0 among them
BoundValues == 0..2

\* string parameters with one length bound
LengthBoundParams ==
    { [type |-> "string", maxLength |-> m] : m \in BoundValues }
        \cup { [type |-> "string", minLength |-> m] : m \in BoundValues }

\* array parameters with one item-count bound
ItemBoundParams ==
    { [type |-> "array", maxItems |-> m] : m \in BoundValues }
        \cup { [type |-> "array", minItems |-> m] : m \in BoundValues }

\* a module with a bounded string and a bounded array
InitBounds ==
    /\ \E p \in LengthBoundParams, q \in ItemBoundParams :
         pm = NewModule(<<Entry("text", p), Entry("n", q)>>, Author,
                        Policy("public", EmptyObj, EmptyObj))
    /\ clock = 1
    /\ callNo = 0
    /\ successes = 0
    /\ lastExec = NoExec
    /\ validation = NoValidation
    /\ lastUpdate = NoUpdate
    /\ signing = NoSigning
    /\ IdleRouter
    /\ IdleRace
    /\ IdleTools

\* validateInput calls on a module with bounded parameters
SpecBounds == InitBounds /\ [][ValidateInputCall]_vars

----------------------------------------------------------------------------
(* Rendering: prepareExecutionInputs, resolveDependencies, renderTemplate *)

\* definition.template
Templates ==
    { <<"a", " ">> \o Placeholder("text"),
      Placeholder("text") \o <<" ">> \o Placeholder("format"),
      Placeholder("format") \o Placeholder("text"),
      Placeholder("text") \o Placeholder("undefinedVar"),
      Placeholder("dep") \o <<" ">> \o Placeholder("text"),
      Placeholder("text") \o Placeholder("text") }

\* definition.inputs: text and format, declared in either order
RenderSchemas ==
    { <<Entry("text", TextParam), Entry("format", FormatParam)>>,
      <<Entry("format", FormatParam), Entry("text", TextParam)>> }

\* values of text: plain, a placeholder of another input, of no input, a
\* replacement pattern, a number
TextValues ==
    { StrValue(<<"a">>), StrValue(Placeholder("format")),
      StrValue(Placeholder("undefinedVar")), StrValue(<<"$", "&">>),
      NumValue(1) }

FormatValues == { StrValue(<<"b">>), StrValue(Placeholder("text")) }

\* definition.dependencies
DependencyLists == { <<>>, <<"dep">> }

\* context.previousOutputs
PreviousOutputs == { <<>>, <<Entry("dep", StrValue(<<"d">>))>> }

\* the steps of execute between the access check and the model call
Render ==
    /\ ~rendering.called
    /\ LET executionInputs ==
               prepareExecutionInputs(rendering.inputs, rendering.input, 1)
           resolved ==
               resolveDependencies(rendering.dependencies, executionInputs,
                                   [previousOutputs |-> rendering.previousOutputs])
       IN  rendering' =
               [rendering EXCEPT
                   !.called = TRUE,
                   !.executionInputs = executionInputs,
                   !.resolved = resolved,
                   !.rendered = renderTemplate(rendering.template,
                                               executionInputs, resolved),
                   !.engine = replaceVariables(rendering.template,
                                               executionInputs, 1)]
    /\ UNCHANGED <<dagVars, moduleVars, raceVars, routed, server, manager>>

InitRender ==
    /\ IdleRouter
    /\ IdleRace
    /\ pm = NewModule(<<>>, Author, Policy("public", EmptyObj, EmptyObj))
    /\ clock = 0
    /\ callNo = 0
    /\ successes = 0
    /\ lastExec = NoExec
    /\ validation = NoValidation
    /\ lastUpdate = NoUpdate
    /\ signing = NoSigning
    /\ routed = NoRouted
    /\ server = NoServer
    /\ manager = NoManager
    /\ \E template \in Templates, inputs \in RenderSchemas,
          text \in TextValues, format \in Optional("format", FormatValues),
          dependencies \in DependencyLists, previous \in PreviousOutputs :
          rendering = [NoRendering EXCEPT
                          !.template = template,
                          !.inputs = inputs,
                          !.input = <<Entry("text", text)>> \o format,
                          !.dependencies = dependencies,
                          !.previousOutputs = previous]

SpecRender == InitRender /\ [][Render]_vars

----------------------------------------------------------------------------
(* PromptRouter.executePrompt with the execution ids of the router and of
   the module *)

\* the values uuidv4() may return
Uuids == {"e1", "e2", "e3"}

\* the mock model response of PromptModule.executePrompt
MockResponse(renderedPrompt, executionId, now) ==
    <<Entry("text", StrValue(<<"Mock response">>)),
      Entry("renderedPrompt", StrValue(renderedPrompt)),
      Entry("executionId", StrValue(<<executionId>>)),
      Entry("timestamp", NumValue(now))>>

\* PromptRouter.executePrompt(promptId, inputs, context) on the cached
\* module pm: the router draws its executionId and passes it on as
\* context.requestId, PromptModule.execute draws an executionId of its own
\* and signs with it, and the router's result carries the router's id in
\* metadata.executionId next to the module's signature; the module's
\* template is the text t
RoutePrompt ==
    /\ callNo < MaxCalls
    /\ \E routerId \in Uuids, moduleId \in Uuids,
          input \in {<<>>, <<Entry("text", StrValue(<<"a">>))>>,
                         <<Entry("text", StrValue(<<"b">>))>>},
          caller \in Callers :
         LET context == [ContextOf(caller) EXCEPT !.requestId = routerId]
         IN  \E r \in {execute(pm, input, context, clock)} :
             \E output \in
                   {MockResponse(renderTemplate(<<"t">>, r.executionInputs, <<>>),
                                 moduleId, clock)} :
             /\ pm' = r.module
             /\ successes' = successes + (IF r.response.success THEN 1 ELSE 0)
             /\ routed' =
                    [called |-> TRUE, input |-> input, context |-> context,
                     promptId |-> "p1", version |-> "1.0.0",
                     moduleExecutionId |-> moduleId,
                     result |->
                        [success |-> r.response.success,
                         output |-> IF r.response.success THEN output ELSE <<>>,
                         executionId |-> routerId,
                         signature |->
                            IF r.response.success
                            THEN generateExecutionSignature(
                                     moduleId, "p1", "1.0.0", input, output,
                                     context.caller, context.timestamp)
                            ELSE <<>>]]
    /\ callNo' = callNo + 1
    /\ UNCHANGED <<clock, lastExec, validation, lastUpdate, signing, rendering,
                   server, manager, dagVars, raceVars>>

\* executePrompt calls on one loaded module
SpecRoute == InitMetadata /\ [][RoutePrompt]_vars

----------------------------------------------------------------------------
(* PromptHubMCPServer: the tools execute_prompt, compose_prompt_dag and
   get_prompt_info *)

\* the PromptModule built from what the vault holds under a prompt id
VaultModule ==
    NewModule(<<Entry("text", TextParam)>>, Author,
              Policy("public", EmptyObj, EmptyObj))

\* getPromptModule of the server and of the router: the module under the
\* key, or a new one from the vault that is then cached
LoadInto(cache, key) ==
    IF key \in DOMAIN cache THEN cache ELSE Assign(cache, Obj1(key, VaultModule))

\* the inputs a tool call or a DAG node passes: valid, or lacking text
ToolInputs == {<<Entry("text", StrValue(<<"a">>))>>, <<>>}

\* getPromptModule(promptId), then module.execute(inputs, context) on the
\* module it returned
ExecuteNode(cache, promptId, input, caller, now) ==
    LET key == CacheKey(promptId)
        loaded == LoadInto(cache, key)
        r == execute(loaded[key], input,
                     [caller |-> caller, timestamp |-> now, requestId |-> "e1"],
                     now)
    IN  [cache |-> [loaded EXCEPT ![key] = r.module],
         success |-> r.response.success]

Count(executed, promptId, success) ==
    IF success THEN [executed EXCEPT ![promptId] = @ + 1] ELSE executed

\* the tool execute_prompt: a module of this.loadedModules is executed
HandleExecutePrompt ==
    /\ server.calls < MaxCalls
    /\ \E promptId \in {"p1", "p2"}, input \in ToolInputs :
         \E r \in {ExecuteNode(server.loadedModules, promptId, input,
                                 "mcp-client", clock)} :
            server' =
                [server EXCEPT
                    !.loadedModules = r.cache,
                    !.executed = Count(@, promptId, r.success),
                    !.calls = @ + 1]
    /\ UNCHANGED <<rendering, routed, manager, dagVars, moduleVars, raceVars>>

\* the tool compose_prompt_dag: this.promptRouter.executeDag runs a DAG of
\* one or two independent nodes; each node's prompt is executed on a module
\* of the router's moduleCache, and a failed node ends the for-loop
HandleComposePromptDAG ==
    /\ server.calls < MaxCalls
    /\ \E n \in 1..2 :
         \E nodes \in [1..n -> [promptId : {"p1", "p2"}, input : ToolInputs]] :
         \E first \in {ExecuteNode(server.moduleCache, nodes[1].promptId,
                                     nodes[1].input, "dag-executor", clock)} :
         \E last \in {IF first.success /\ n = 2
                       THEN ExecuteNode(first.cache, nodes[2].promptId,
                                        nodes[2].input, "dag-executor", clock)
                       ELSE [cache |-> first.cache, success |-> FALSE]} :
            server' =
                [server EXCEPT
                    !.moduleCache = last.cache,
                    !.executed =
                        Count(Count(@, nodes[1].promptId, first.success),
                              nodes[n].promptId, last.success),
                    !.calls = @ + 1]
    /\ UNCHANGED <<rendering, routed, manager, dagVars, moduleVars, raceVars>>

\* the tool get_prompt_info: getMetadata() of a module of this.loadedModules
HandleGetPromptInfo ==
    /\ server.calls < MaxCalls
    /\ \E promptId \in {"p1", "p2"} :
         LET key == CacheKey(promptId)
             loaded == LoadInto(server.loadedModules, key)
         IN  server' =
                 [server EXCEPT
                     !.loadedModules = loaded,
                     !.info = [called |-> TRUE, promptId |-> promptId,
                               executionCount |->
                                   getMetadata(loaded[key]).executionCount,
                               executed |-> server.executed[promptId]],
                     !.calls = @ + 1]
    /\ UNCHANGED <<rendering, routed, manager, dagVars, moduleVars, raceVars>>

NextServer ==
    HandleExecutePrompt \/ HandleComposePromptDAG \/ HandleGetPromptInfo \/ Tick

\* tool calls on one server
SpecServer == InitMetadata /\ [][NextServer]_vars

----------------------------------------------------------------------------
(* ExecutionContextManager *)

MaxSteps == 1

SessionIds == {"s1", "s2"}

\* generateContextId: the hash of `${sessionId}-${userId}-${promptId}-${timestamp}`,
\* a hash that tells all its texts apart
generateContextId(sessionId, userId, promptId, now) ==
    SHA256(<<sessionId, "-", userId, "-", promptId, "-", now>>)

\* the context ids a caller may pass: those of the contexts created and
\* one that was never created
KnownIds == DOMAIN manager.contexts \cup DOMAIN manager.executionHistory

ContextIds == KnownIds \cup {SHA256(<<"unknown">>)}

\* createContext(sessionId, userId, promptDefinition, inputs)
CreateContext ==
    /\ \E sessionId \in SessionIds, inputs \in {"i1"} :
         LET contextId == generateContextId(sessionId, "u1", "p1", clock)
             context == [sessionId |-> sessionId, inputs |-> inputs,
                         outputs |-> "none", startTime |-> clock]
             contexts == Assign(manager.contexts, Obj1(contextId, context))
         IN  manager' =
                 [contexts |-> contexts,
                  executionHistory |->
                      Assign(manager.executionHistory, Obj1(contextId, <<>>)),
                  created |->
                      [called |-> TRUE, contextId |-> contextId,
                       before |-> Cardinality(DOMAIN manager.contexts),
                       after |-> Cardinality(DOMAIN contexts),
                       replaced |-> contextId \in DOMAIN manager.contexts,
                       historyLost |->
                           /\ contextId \in DOMAIN manager.executionHistory
                           /\ manager.executionHistory[contextId] # <<>>]]
    /\ UNCHANGED <<rendering, routed, server, dagVars, moduleVars, raceVars>>

\* updateContext(contextId, outputs); metadata.lastUpdated is left out
UpdateContext ==
    /\ \E contextId \in ContextIds, outputs \in {"o1"} :
         manager' =
             IF contextId \in DOMAIN manager.contexts
             THEN [manager EXCEPT
                      !.contexts[contextId].outputs = outputs,
                      !.created = NoManager.created]
             ELSE [manager EXCEPT !.created = NoManager.created]
    /\ UNCHANGED <<rendering, routed, server, dagVars, moduleVars, raceVars>>

\* addExecutionStep(contextId, response)
AddExecutionStep ==
    /\ \E contextId \in ContextIds :
         /\ contextId \in DOMAIN manager.executionHistory
                => Len(manager.executionHistory[contextId]) < MaxSteps
         /\ manager' =
                IF contextId \in DOMAIN manager.executionHistory
                THEN [manager EXCEPT
                         !.executionHistory[contextId] = Append(@, "response"),
                         !.created = NoManager.created]
                ELSE [manager EXCEPT !.created = NoManager.created]
    /\ UNCHANGED <<rendering, routed, server, dagVars, moduleVars, raceVars>>

\* the contexts whose age is above maxAge
ExpiredContexts(maxAge) ==
    { contextId \in DOMAIN manager.contexts :
        clock - manager.contexts[contextId].startTime > maxAge }

\* cleanupExpiredContexts(maxAge)
CleanupExpiredContexts ==
    /\ \E maxAge \in 0..1 :
         manager' =
             [manager EXCEPT
                 !.contexts =
                     [c \in DOMAIN manager.contexts \ ExpiredContexts(maxAge) |->
                         manager.contexts[c]],
                 !.executionHistory =
                     [c \in DOMAIN manager.executionHistory \ ExpiredContexts(maxAge) |->
                         manager.executionHistory[c]],
                 !.created = NoManager.created]
    /\ UNCHANGED <<rendering, routed, server, dagVars, moduleVars, raceVars>>

NextManager ==
    CreateContext \/ UpdateContext \/ AddExecutionStep
        \/ CleanupExpiredContexts \/ Tick

\* calls on one ExecutionContextManager as the clock advances
SpecManager == InitMetadata /\ [][NextManager]_vars

----------------------------------------------------------------------------
(* Properties *)

Dependencies(id) == NodeById(dag, id).dependencies

\* ids reachable from the set S along dependencies
RECURSIVE ReachSet(_, _)
ReachSet(g, S) ==
    LET T == S \cup UNION { Range(g[i].dependencies) :
                              i \in {j \in 1..Len(g) : g[j].id \in S} }
    IN  IF T = S THEN S ELSE ReachSet(g, T)

DirectDeps(g, id) ==
    UNION { Range(g[i].dependencies) : i \in {j \in 1..Len(g) : g[j].id = id} }

\* the dependencies relation leads from some node back to itself
HasCycle(g) == \E id \in NodeIds(g) : id \in ReachSet(g, DirectDeps(g, id))

\* two positions of the node list carry the same id
SameIdTwice(g) == \E i, j \in 1..Len(g) : i # j /\ g[i].id = g[j].id

HasMissingDependency(g) ==
    \E i \in 1..Len(g) : \E d \in Range(g[i].dependencies) : d \notin NodeIds(g)

Returned == pc = "returned" /\ ret.kind = "return"

ValidationFailure ==
    /\ ret.kind = "return"
    /\ ~ret.value.success
    /\ ret.value.nodeId = "validation"

\* C1: in an executeDag run every node id appears in executionOrder after
\* all ids listed in its dependencies, and no node's pipeline is started
\* before each of its dependencies has a recorded result.
C1_DependenciesFirst ==
    /\ \A i \in 1..Len(executionOrder) :
          \A d \in Range(Dependencies(executionOrder[i])) :
             \E j \in 1..(i - 1) : executionOrder[j] = d
    /\ pc = "inflight" =>
          \A d \in Range(Dependencies(current.id)) : d \in DOMAIN results

\* C2: when a node listing dependency D has been executed and D produced a
\* successful object-shaped output, the input map the node was executed with
\* holds every key of D's output, with D's value where D is the node's only
\* dependency and rootInputs does not define the key.
C2_DependencyOutputMerged ==
    \A n \in DOMAIN nodeInputsLog :
       \A d \in Range(Dependencies(n)) :
          (/\ d \in DOMAIN results
           /\ results[d].success
           /\ results[d].output.type = "object")
          => \A k \in DOMAIN results[d].output.fields :
                /\ k \in DOMAIN nodeInputsLog[n]
                /\ (k \notin DOMAIN rootInputs /\ Len(Dependencies(n)) = 1)
                      => nodeInputsLog[n][k] = results[d].output.fields[k]

\* C3: once a node's result is unsuccessful the run has returned
\* success=false, that node is the last one started and the last element of
\* executionOrder, error.nodeId is its id, and no pipeline is in flight.
C3_FailFast ==
    \A n \in DOMAIN results :
       ~results[n].success =>
          /\ pc = "returned"
          /\ ret.kind = "return"
          /\ ~ret.value.success
          /\ ret.value.nodeId = n
          /\ executionOrder[Len(executionOrder)] = n
          /\ started[Len(started)] = n
          /\ Len(started) = Len(executionOrder)
          /\ current = NoNode

C3_Witness ==
    /\ Len(dag) = 3
    /\ Len(executionOrder) = 2
    /\ \E n \in DOMAIN results : ~results[n].success

\* a, b, c form the linear chain a -> b -> c of the DAG
IsChain(a, b, c) ==
    /\ Len(dag) = 3
    /\ NodeIds(dag) = {a, b, c}
    /\ Cardinality({a, b, c}) = 3
    /\ Dependencies(a) = <<>>
    /\ Dependencies(b) = <<a>>
    /\ Dependencies(c) = <<b>>

\* C4: in a linear chain A -> B -> C in which B's execution fails and A's
\* does not, executeDag returns executionOrder [A, B], results for A and B
\* only, and error.nodeId = B.
C4_ChainStopsAtB ==
    \A a, b, c \in IdSet :
       (/\ IsChain(a, b, c)
        /\ Returned
        /\ b \in DOMAIN results
        /\ ~results[b].success
        /\ a \in DOMAIN results => results[a].success)
       => /\ executionOrder = <<a, b>>
          /\ DOMAIN results = {a, b}
          /\ ret.value.nodeId = b

\* C5: a DAG whose dependencies relation has a cycle executes no node, and
\* its run returns success=false with error.nodeId "validation", a
\* VALIDATION_ERROR, empty results and empty executionOrder.
C5_CycleRejected ==
    HasCycle(dag) =>
       /\ pc \in {"called", "returned"}
       /\ started = <<>>
       /\ executionOrder = <<>>
       /\ results = EmptyObj
       /\ pc = "returned" =>
             ValidationFailure /\ ret.value.error = "VALIDATION_ERROR"

C5_Witness ==
    /\ pc = "returned"
    /\ HasCycle(dag)
    /\ ~SameIdTwice(dag)
    /\ ~HasMissingDependency(dag)
    /\ Len(dag) = 3
    /\ \A i \in 1..Len(dag) : dag[i].id \notin Range(dag[i].dependencies)

\* C6: a DAG with two nodes of the same id, or with a dependency that names
\* no node, fails in the validation phase: no pipeline is started and the
\* vault is never asked.
C6_MalformedRejected ==
    (SameIdTwice(dag) \/ HasMissingDependency(dag)) =>
       /\ pc \in {"called", "returned"}
       /\ started = <<>>
       /\ vaultCalls = 0
       /\ moduleCache = {}
       /\ results = EmptyObj
       /\ pc = "returned" => ValidationFailure

C6_Witness ==
    /\ pc = "returned"
    /\ SameIdTwice(dag)
    /\ ~HasMissingDependency(dag)
    /\ ~HasCycle(dag)

\* the dependency outputs that are objects (typeof 'object' and not null,
\* arrays among them) and whose result is successful
Contributes(node, i) ==
    LET d == node.dependencies[i]
    IN  /\ d \in DOMAIN results
        /\ results[d].success
        /\ results[d].output.type \in {"object", "array"}

\* the value precedence gives key k: rootInputs, else the last listed
\* dependency output that has k, else the literal input
PrecedenceValue(node, k) ==
    LET from == {i \in 1..Len(node.dependencies) :
                    Contributes(node, i)
                    /\ k \in DOMAIN results[node.dependencies[i]].output.fields}
    IN  IF k \in DOMAIN rootInputs THEN rootInputs[k]
        ELSE IF from # {}
        THEN LET i == CHOOSE x \in from : \A y \in from : y <= x
             IN  results[node.dependencies[i]].output.fields[k]
        ELSE node.inputs[k]

PrecedenceKeys(node) ==
    (DOMAIN node.inputs) \cup (DOMAIN rootInputs)
      \cup UNION { DOMAIN results[node.dependencies[i]].output.fields :
                     i \in {j \in 1..Len(node.dependencies) : Contributes(node, j)} }

C8_NeverThrows ==
    /\ ret.kind # "throw"
    /\ promptRet.kind # "throw"
    /\ moduleRet.kind # "throw"
    /\ pc = "returned" => ret.kind = "return"

\* a DAG with a node that has no dependencies list has been answered
C8_Witness ==
    /\ pc = "returned"
    /\ call.fn = "executeDag"
    /\ \E i \in 1..Len(dag) : ~dag[i].hasDeps
    /\ ValidationFailure
    /\ ret.value.error = "TypeError"

\* C9: the keys of results are the ids of executionOrder, executionOrder
\* has no duplicates and is the list of started nodes up to the one in
\* flight, and at the return every started node has its recorded result.
C9_PartialProgressKept ==
    /\ DOMAIN results = Range(executionOrder)
    /\ NoRepeat(executionOrder)
    /\ \A i \in 1..Len(executionOrder) : executionOrder[i] = started[i]
    /\ Len(started) = Len(executionOrder) + (IF pc = "inflight" THEN 1 ELSE 0)

C9_Witness ==
    /\ pc = "returned"
    /\ ~ret.value.success
    /\ Len(executionOrder) = 3
    /\ results[executionOrder[1]].success

\* C10: executeDag returns success=true exactly when every node of the DAG
\* was executed once and each result is successful.
C10_SuccessIffAllSucceeded ==
    Returned =>
       (ret.value.success <=>
          /\ Len(executionOrder) = Len(dag)
          /\ Range(executionOrder) = NodeIds(dag)
          /\ NoRepeat(executionOrder)
          /\ DOMAIN results = NodeIds(dag)
          /\ \A n \in DOMAIN results : results[n].success)

C10_Witness ==
    /\ Returned
    /\ ret.value.success
    /\ Len(dag) = 3
    /\ Len(executionOrder) = 3

AllDone == \A i \in CallerIds : inflight[i].pc = "done"

\* the calls for key that returned success = true
Succeeded(key) ==
    { i \in CallerIds :
        /\ inflight[i].pc = "done"
        /\ CacheKey(inflight[i].promptId) = key
        /\ inflight[i].result.value.success }

\* C12: when all concurrent executePrompt calls have completed, the
\* execution count of the module cached for a key equals the number of
\* calls for that key that succeeded
C12_NoLostIncrement ==
    AllDone =>
        \A key \in DOMAIN cached :
            modules[cached[key]].executionCount = Cardinality(Succeeded(key))

\* two callers whose vault fetch for the same key found the prompt
BothLoaded(i, j) ==
    /\ i # j
    /\ inflight[i].promptId = inflight[j].promptId
    /\ inflight[i].missed /\ inflight[j].missed
    /\ inflight[i].reply = "found" /\ inflight[j].reply = "found"

Equivalent(m, n) ==
    /\ modules[m].definition = modules[n].definition
    /\ modules[m].metadata = modules[n].metadata

PipelineOrder ==
    <<"context", "input", "access", "prepare", "render", "model", "signature">>

IsPrefix(s, t) == Len(s) <= Len(t) /\ s = SubSeq(t, 1, Len(s))

InPipeline(stage) == stage \in {PipelineOrder[i] : i \in DOMAIN PipelineOrder}

WellFormed(context) == {"caller", "timestamp", "requestId"} \subseteq DOMAIN context

\* the input of the last call does not pass the module's validator
InvalidInput == ~validateInput(pm.inputs, lastExec.input).valid

\* the caller of the last call is refused by the access check
DeniedCaller ==
    /\ WellFormed(lastExec.context)
    /\ checkAccess(pm.accessPolicy, pm.author, lastExec.context.caller,
                   lastExec.now).kind = "throw"

\* C14: execute runs its stages in the fixed order and the first failing
\* stage decides: invalid input with a denied caller fails with
\* INVALID_INPUT, a malformed context fails with VALIDATION_ERROR before
\* the input is validated, and after a failure neither the model, nor the
\* counter update, nor the signature runs
C14_FirstFailingStageDecides ==
    lastExec.called =>
        /\ IsPrefix(SelectSeq(lastExec.stages, InPipeline), PipelineOrder)
        /\ (WellFormed(lastExec.context) /\ InvalidInput) =>
              lastExec.response.code = "INVALID_INPUT"
        /\ ~WellFormed(lastExec.context) =>
              /\ lastExec.response.code = "VALIDATION_ERROR"
              /\ lastExec.stages = <<"context">>
        /\ ~lastExec.response.success =>
              /\ \A k \in DOMAIN lastExec.stages :
                     lastExec.stages[k] \notin {"model", "count", "signature"}
              /\ getMetadata(pm).executionCount = lastExec.countBefore
              /\ ~lastExec.response.signature
        /\ lastExec.response.success =>
              SelectSeq(lastExec.stages, InPipeline) = PipelineOrder

\* a call with a well-formed context, an invalid input and a denied caller
C14_Witness ==
    /\ lastExec.called
    /\ InvalidInput
    /\ DeniedCaller
    /\ lastExec.response.code = "INVALID_INPUT"
    /\ lastExec.stages = <<"context", "input">>

\* C15: a ModuleResponse of execute is either success = true with a
\* non-null output, a signature and no metadata.error, or success = false
\* with output null, no signature and a metadata.error code; when input
\* validation failed the code is INVALID_INPUT and the details are the
\* validator's error list
C15_TwoResponseShapes ==
    lastExec.called =>
        LET r == lastExec.response
        IN  /\ \/ /\ r.success
                  /\ r.output # NullValue
                  /\ r.signature
                  /\ r.code = "none"
               \/ /\ ~r.success
                  /\ r.output = NullValue
                  /\ ~r.signature
                  /\ r.code # "none"
            /\ (WellFormed(lastExec.context) /\ InvalidInput) =>
                  /\ r.code = "INVALID_INPUT"
                  /\ r.details = validateInput(pm.inputs, lastExec.input).errors
                  /\ r.details # <<>>

\* a call that failed input validation with two errors in the list
C15_Witness ==
    /\ lastExec.called
    /\ lastExec.response.code = "INVALID_INPUT"
    /\ Len(lastExec.response.details) = 2

\* policy.expirationDate is set and the time of the last call is past it
Expired ==
    /\ Has(pm.accessPolicy, "expirationDate")
    /\ lastExec.now > pm.accessPolicy.expirationDate

\* C16: whatever the type of the access policy, a call made after
\* policy.expirationDate is denied with ACCESS_DENIED (given a well-formed
\* context and a valid input, so that the access check is reached)
C16_ExpirationTakesPrecedence ==
    (lastExec.called /\ WellFormed(lastExec.context) /\ ~InvalidInput /\ Expired) =>
        /\ ~lastExec.response.success
        /\ lastExec.response.code = "ACCESS_DENIED"

\* the last call reached the access check of a policy of one of the types
ReachedAccess(types) ==
    /\ lastExec.called
    /\ WellFormed(lastExec.context)
    /\ ~InvalidInput
    /\ pm.accessPolicy.type \in types

\* C17: with a private policy that has not expired and a valid input,
\* execute succeeds exactly when context.caller is the prompt's author; any
\* other caller gets success = false with code ACCESS_DENIED
C17_PrivateOnlyAuthor ==
    (ReachedAccess({"private"}) /\ ~Expired) =>
        /\ lastExec.response.success <=> lastExec.context.caller = pm.author
        /\ lastExec.context.caller # pm.author =>
              lastExec.response.code = "ACCESS_DENIED"

\* the author has executed a private prompt, another caller is then denied
C17_Witness ==
    /\ ReachedAccess({"private"})
    /\ ~Expired
    /\ getMetadata(pm).executionCount = 1
    /\ lastExec.context.caller = "bob"
    /\ lastExec.response.code = "ACCESS_DENIED"

\* C18: with a custom policy (not expired), access is granted exactly when
\* the caller is a member of policy.whitelist; without a whitelist every
\* caller is denied
C18_CustomWhitelistOnly ==
    (ReachedAccess({"custom"}) /\ ~Expired) =>
        (lastExec.response.success <=>
            /\ Has(pm.accessPolicy, "whitelist")
            /\ lastExec.context.caller \in pm.accessPolicy.whitelist)

\* C19: with a token_gated or nft_gated policy (not expired), access is
\* granted exactly when the external holding check answers true for the
\* caller; a caller without the balance or the NFT gets ACCESS_DENIED
C19_GatedNeedsHolding ==
    (ReachedAccess({"token_gated", "nft_gated"}) /\ ~Expired) =>
        /\ lastExec.response.success <=> lastExec.holds
        /\ ~lastExec.holds => lastExec.response.code = "ACCESS_DENIED"

\* the input without the entry of a key
Without(input, key) ==
    LET Other(entry) == entry.key # key
    IN  SelectSeq(input, Other)

Declared(key) == key \in {pm.inputs[i].key : i \in DOMAIN pm.inputs}

\* C20: validateInput returns valid = true exactly when errors is empty; a
\* required parameter absent from the input yields the error "Required
\* parameter '<name>' is missing"; a key of the input that is not declared
\* yields a warning, no error, and the same verdict as the input without it
C20_ValidIffNoErrors ==
    validation.called =>
        LET r == validation.result
            input == validation.input
        IN  /\ r.valid <=> r.errors = <<>>
            /\ \A i \in DOMAIN pm.inputs :
                  LET key == pm.inputs[i].key
                      param == pm.inputs[i].value
                  IN  (/\ Has(param, "required") /\ param.required
                       /\ \A k \in DOMAIN input : input[k].key # key)
                      => Message(key, "Required parameter is missing", 0, <<>>)
                            \in Range(r.errors)
            /\ \A k \in DOMAIN input :
                  ~Declared(input[k].key) =>
                      /\ Message(input[k].key, "Unexpected parameter will be ignored",
                                 0, <<>>) \in Range(r.warnings)
                      /\ \A e \in DOMAIN r.errors : r.errors[e].key # input[k].key
                      /\ validateInput(pm.inputs, Without(input, input[k].key)).errors
                            = r.errors

\* an input without the required text and with an undeclared key
C20_Witness ==
    /\ validation.called
    /\ ~validation.result.valid
    /\ validation.result.errors =
          <<Message("text", "Required parameter is missing", 0, <<>>)>>
    /\ Len(validation.result.warnings) = 1

\* the constraints of param that a value of the right type violates, as the
\* texts of their messages, in the order of the constraint list
Violated(param, value) ==
    LET If(cond, text) == IF cond THEN <<text>> ELSE <<>>
    IN  CASE param.type = "string" ->
               If(Has(param, "minLength") /\ Len(value.str) < param.minLength,
                  "must be at least characters")
               \o If(Has(param, "maxLength") /\ Len(value.str) > param.maxLength,
                     "must be at most characters")
               \o If(Has(param, "pattern") /\ ~RegExpTest(param.pattern, value.str),
                     "does not match required pattern")
               \o If(Has(param, "enum")
                        /\ \A i \in DOMAIN param.enum : param.enum[i] # value.str,
                     "must be one of")
          [] param.type = "number" ->
               If(Has(param, "minimum") /\ value.num < param.minimum,
                  "must be at least")
               \o If(Has(param, "maximum") /\ value.num > param.maximum,
                     "must be at most")
          [] param.type = "array" ->
               If(Has(param, "minItems") /\ value.num < param.minItems,
                  "must have at least items")
               \o If(Has(param, "maxItems") /\ value.num > param.maxItems,
                     "must have at most items")
          [] OTHER -> <<>>

\* the texts of the errors reported for a key, in the order of the list
ErrorTexts(errors, key) ==
    LET About(e) == e.key = key
        about == SelectSeq(errors, About)
    IN  [i \in DOMAIN about |-> about[i].text]

\* C21: for a present parameter of the right type, validateInput reports
\* one error per violated constraint, in the order of the constraint list
C21_OneErrorPerViolation ==
    validation.called =>
        \A i \in DOMAIN pm.inputs :
            LET key == pm.inputs[i].key
                param == pm.inputs[i].value
            IN  \A k \in DOMAIN validation.input :
                    (/\ validation.input[k].key = key
                     /\ validation.input[k].value.type = param.type)
                    => ErrorTexts(validation.result.errors, key)
                          = Violated(param, validation.input[k].value)

\* the entries of an object that carry a key
EntriesOf(o, key) == {i \in DOMAIN o : o[i].key = key}

\* C22: the execution inputs of a successful call hold, for each declared
\* parameter, the caller's value if the key is present, else the declared
\* default if there is one, else no entry; undeclared keys never appear
C22_ExecutionInputs ==
    (lastExec.called /\ lastExec.response.success) =>
        LET input == lastExec.input
            prepared == lastExec.executionInputs
        IN  /\ \A i \in DOMAIN pm.inputs :
                  LET key == pm.inputs[i].key
                      param == pm.inputs[i].value
                  IN  IF EntriesOf(input, key) # {}
                      THEN /\ Cardinality(EntriesOf(prepared, key)) = 1
                           /\ \A k \in EntriesOf(prepared, key) :
                                 \A j \in EntriesOf(input, key) :
                                    prepared[k].value = input[j].value
                      ELSE IF Has(param, "default")
                      THEN /\ Cardinality(EntriesOf(prepared, key)) = 1
                           /\ \A k \in EntriesOf(prepared, key) :
                                 prepared[k].value = param.default
                      ELSE EntriesOf(prepared, key) = {}
            /\ \A k \in DOMAIN prepared : Declared(prepared[k].key)

\* a call with an undeclared key and without the optional format: the
\* prepared inputs are text and the default of format
C22_Witness ==
    /\ lastExec.called
    /\ lastExec.response.success
    /\ EntriesOf(lastExec.input, "extra") # {}
    /\ lastExec.executionInputs =
          <<Entry("text", StrValue(<<"a">>)), Entry("format", StrValue(<<"a">>))>>

\* C23: generateExecutionSignature is a function of its seven arguments
\* (execution id, prompt id, version, input, output, caller, timestamp): two
\* calls with the same arguments give the same signature, and two calls that
\* differ in one argument give different signatures.
C23_SignatureStableAndSensitive ==
    signing.called =>
        (signing.signatures[1] = signing.signatures[2]
            <=> signing.first = signing.second)

\* two calls that differ in the timestamp only were signed differently, and
\* some pair of equal argument lists exists beside them
C23_Witness ==
    /\ signing.called
    /\ signing.first.timestamp # signing.second.timestamp
    /\ signing.signatures[1] # signing.signatures[2]

\* C24: the error kind the pipeline produced is the one the caller of
\* executePrompt sees: when module.execute failed with ACCESS_DENIED,
\* INVALID_INPUT or VALIDATION_ERROR, the result of executePrompt carries
\* that code, and so does the error of the failing DAG node.
C24_PipelineErrorKindSurfaces ==
    (/\ promptRet.kind = "return"
     /\ moduleRet.kind = "return"
     /\ ~moduleRet.value.success
     /\ moduleRet.value.code \in {"ACCESS_DENIED", "INVALID_INPUT",
                                   "VALIDATION_ERROR"})
        => /\ promptRet.value.code = moduleRet.value.code
           /\ (call.fn = "executeDag" /\ pc = "returned" /\ ret.kind = "return"
                 /\ ~ret.value.success /\ ret.value.nodeId \in IdSet)
                    => ret.value.error = moduleRet.value.code

\* the prompt id of the last executePrompt call
LastPromptId ==
    IF call.fn = "executeDag" THEN PromptOf(started[Len(started)])
    ELSE call.promptId

\* C25: when the vault lookup of an executePrompt call returned null, the
\* call returns success = false with code PROMPT_NOT_FOUND, module.execute
\* was not called and the cache holds no module under that key; in a DAG run
\* the node is recorded as failed in results and executionOrder, the run
\* has returned a failure naming that node and no later node was started.
C25_NullIsPromptNotFound ==
    vaultReply = "null" =>
        /\ promptRet.kind = "return"
        /\ ~promptRet.value.success
        /\ promptRet.value.code = "PROMPT_NOT_FOUND"
        /\ moduleRet = NotCalled
        /\ CacheKey(LastPromptId) \notin moduleCache
        /\ CacheKey(LastPromptId) \notin DOMAIN executionCount
        /\ call.fn = "executeDag" =>
              LET nodeId == started[Len(started)]
              IN  /\ pc = "returned"
                  /\ nodeId \in DOMAIN results
                  /\ ~results[nodeId].success
                  /\ results[nodeId].code = "PROMPT_NOT_FOUND"
                  /\ Len(executionOrder) = Len(started)
                  /\ executionOrder[Len(executionOrder)] = nodeId
                  /\ ret.kind = "return"
                  /\ ~ret.value.success
                  /\ ret.value.nodeId = nodeId
                  /\ ret.value.error = "PROMPT_NOT_FOUND"

\* the second node of a DAG run was not found in the vault after the first
\* had succeeded, and a third node was never started
C25_Witness ==
    /\ call.fn = "executeDag"
    /\ vaultReply = "null"
    /\ Len(started) = 2
    /\ Len(sortedNodes) = 3
    /\ results[started[1]].success

\* the caller or the requestId of a context is the empty string
EmptyStringContext(context) ==
    \/ Has(context, "caller") /\ context.caller = ""
    \/ Has(context, "requestId") /\ context.requestId = ""

\* C26: execute with a context whose caller or requestId is the empty
\* string fails with VALIDATION_ERROR, and neither input validation nor the
\* access check nor the model is reached.
C26_EmptyStringsRejected ==
    (lastExec.called /\ EmptyStringContext(lastExec.context)) =>
        /\ ~lastExec.response.success
        /\ lastExec.response.code = "VALIDATION_ERROR"
        /\ lastExec.stages = <<"context">>

\* C27: no parameter of a loaded module has both required = true and a
\* default: the constructor rejects such a definition or normalizes it.
C27_NoRequiredWithDefault ==
    \A i \in 1..Len(pm.inputs) :
        ~(/\ Has(pm.inputs[i].value, "required")
          /\ pm.inputs[i].value.required
          /\ Has(pm.inputs[i].value, "default"))

\* C28: updateMetadata by a caller other than the current author throws
\* ACCESS_DENIED with the message 'Only the prompt author can update
\* metadata' and leaves metadata, access policy and execution count as they
\* were; a call by the author returns and every given field has the given
\* value afterwards, the other fields but updatedAt keep theirs.
C28_OnlyAuthorUpdates ==
    lastUpdate.called =>
        LET before == lastUpdate.before
            after == lastUpdate.after
            given == DOMAIN lastUpdate.newMetadata
        IN  IF lastUpdate.caller # before.author
            THEN /\ lastUpdate.outcome.kind = "throw"
                 /\ lastUpdate.outcome.error = "ACCESS_DENIED"
                 /\ lastUpdate.outcome.message =
                        "Only the prompt author can update metadata"
                 /\ after = before
            ELSE /\ lastUpdate.outcome.kind = "return"
                 /\ \A f \in given : after[f] = lastUpdate.newMetadata[f]
                 /\ \A f \in (DOMAIN before) \ (given \cup {"updatedAt"}) :
                        after[f] = before[f]
                 /\ after.executionCount = before.executionCount

\* alice, no longer the author after handing the prompt to bob, is denied
\* on a module that has executed once
C28_Witness ==
    /\ lastUpdate.called
    /\ lastUpdate.caller = "alice"
    /\ lastUpdate.before.author = "bob"
    /\ lastUpdate.outcome.kind = "throw"
    /\ lastUpdate.before.executionCount = 1
    /\ pm = lastUpdate.before

\* every node of the DAG has an empty dependencies list
AllIndependent ==
    \A i \in 1..Len(dag) : dag[i].hasDeps /\ dag[i].dependencies = <<>>

\* C29: independent nodes execute in the order of the DAG's node list: a
\* successful run of a DAG whose nodes all have empty dependencies has
\* executionOrder equal to the node ids in the order given.
C29_IndependentNodesInInputOrder ==
    (/\ call.fn = "executeDag"
     /\ AllIndependent
     /\ Returned
     /\ ret.value.success)
        => executionOrder = [i \in 1..Len(dag) |-> dag[i].id]

Occurs(pat, s) ==
    \E i \in 1..Len(s) :
       /\ i + Len(pat) - 1 <= Len(s)
       /\ \A k \in 1..Len(pat) : s[i + k - 1] = pat[k]

\* C31: a placeholder whose key is neither among the execution inputs nor
\* among the resolved dependencies stays in the rendered text as it stands
\* in the template, in renderTemplate and in the engine's replaceVariables.
C31_UnresolvedPlaceholderKept ==
    (/\ rendering.called
     /\ Occurs(Placeholder("undefinedVar"), rendering.template)
     /\ "undefinedVar" \notin Keys(rendering.executionInputs)
     /\ "undefinedVar" \notin Keys(rendering.resolved))
        => /\ Occurs(Placeholder("undefinedVar"), rendering.rendered)
           /\ Occurs(Placeholder("undefinedVar"), rendering.engine)

\* {{text}}{{undefinedVar}} was rendered with text = a: the first
\* placeholder is replaced, the second is left
C31_Witness ==
    /\ rendering.called
    /\ rendering.template = Placeholder("text") \o Placeholder("undefinedVar")
    /\ rendering.rendered = <<"a">> \o Placeholder("undefinedVar")

\* a DAG of two nodes with different ids and no dependencies field; its
\* edges are a field of the DAG that no code reads
TwoNodesOrderedByEdge ==
    /\ call.fn = "executeDag"
    /\ Len(dag) = 2
    /\ dag[1].id # dag[2].id
    /\ ~dag[1].hasDeps
    /\ ~dag[2].hasDeps

\* C32: a two-node DAG whose nodes carry no dependencies field, ordered by
\* an edge from X to Y alone, passes validation, and its run succeeds with
\* executionOrder [X, Y] when no pipeline of its nodes fails.
C32_EdgeOrderedDagRuns ==
    (TwoNodesOrderedByEdge /\ Returned) =>
        /\ ~ValidationFailure
        /\ ret.value.success => executionOrder = <<dag[1].id, dag[2].id>>

\* C33: a dependency id of the definition that has a prior result in
\* context.previousOutputs is resolved to that result, and its placeholder
\* in the template is replaced by it; an id without a prior result keeps
\* its placeholder.
C33_DependencyResultSubstituted ==
    rendering.called =>
        \A i \in 1..Len(rendering.dependencies) :
           LET dep == rendering.dependencies[i]
           IN  (/\ Occurs(Placeholder(dep), rendering.template)
                /\ dep \notin Keys(rendering.executionInputs))
                  => IF dep \in Keys(rendering.previousOutputs)
                     THEN /\ dep \in Keys(rendering.resolved)
                          /\ Get(rendering.resolved, dep)
                                = Get(rendering.previousOutputs, dep)
                          /\ Occurs(StringOf(Get(rendering.previousOutputs, dep)),
                                    rendering.rendered)
                          /\ ~Occurs(Placeholder(dep), rendering.rendered)
                     ELSE Occurs(Placeholder(dep), rendering.rendered)

\* a value of the parameter's type is beyond a declared length or
\* item-count bound of the parameter
BeyondBound(param, value) ==
    \/ /\ param.type = "string"
       /\ value.type = "string"
       /\ \/ Has(param, "maxLength") /\ Len(value.str) > param.maxLength
          \/ Has(param, "minLength") /\ Len(value.str) < param.minLength
    \/ /\ param.type = "array"
       /\ value.type = "array"
       /\ \/ Has(param, "maxItems") /\ value.num > param.maxItems
          \/ Has(param, "minItems") /\ value.num < param.minItems

\* C34: every declared length and item-count bound is enforced, the bound 0
\* included: a value beyond maxLength, minLength, maxItems or minItems makes
\* validateInput report an error for its key.
C34_BoundsEnforcedFromZero ==
    validation.called =>
        \A i \in DOMAIN pm.inputs :
           \A k \in DOMAIN validation.input :
              (/\ validation.input[k].key = pm.inputs[i].key
               /\ BeyondBound(pm.inputs[i].value, validation.input[k].value))
                 => /\ ~validation.result.valid
                    /\ \E j \in DOMAIN validation.result.errors :
                          validation.result.errors[j].key = pm.inputs[i].key

\* the keys a node's input map may hold: those of its literal inputs, of
\* rootInputs and of the plain-object outputs of its successful dependencies
PlainObjectKeys(node) ==
    (DOMAIN node.inputs) \cup (DOMAIN rootInputs)
      \cup UNION { DOMAIN results[node.dependencies[i]].output.fields :
                     i \in {j \in 1..Len(node.dependencies) :
                              /\ node.dependencies[j] \in DOMAIN results
                              /\ results[node.dependencies[j]].success
                              /\ results[node.dependencies[j]].output.type
                                    = "object"} }

NextLookup(i, j) ==
    /\ inflight[i].order > 0
    /\ inflight[i].order < inflight[j].order
    /\ inflight[i].promptId = inflight[j].promptId
    /\ \A k \in CallerIds :
          (inflight[i].order < inflight[k].order
           /\ inflight[k].order < inflight[j].order)
             => inflight[k].promptId # inflight[i].promptId

\* C36: in sequential use, a lookup after a lookup of the same key that got
\* a module returns that same module object without asking the vault, and
\* the cache holds it; a lookup after one that failed in a cache that did
\* not hold the key asks the vault again, and a failed lookup leaves no
\* entry under the key.
C36_CacheHitsAfterLoad ==
    /\ \A i, j \in CallerIds :
          NextLookup(i, j) =>
              IF inflight[i].module # NoModule
              THEN /\ ~inflight[j].missed
                   /\ inflight[j].module = inflight[i].module
                   /\ cached[CacheKey(inflight[i].promptId)] = inflight[i].module
              ELSE inflight[j].missed
    /\ \A key \in DOMAIN cached :
          \E i \in CallerIds :
             /\ CacheKey(inflight[i].promptId) = key
             /\ inflight[i].missed
             /\ inflight[i].reply = "found"
             /\ cached[key] = inflight[i].module

\* the second call found in the cache the module the first call had loaded
C36_Witness ==
    /\ NextLookup(1, 2)
    /\ inflight[1].missed
    /\ inflight[1].reply = "found"
    /\ ~inflight[2].missed
    /\ inflight[2].module = inflight[1].module
    /\ AllDone

\* the signature that binds the execution id the result reports
SignatureOfResult ==
    generateExecutionSignature(routed.result.executionId, routed.promptId,
                               routed.version, routed.input,
                               routed.result.output, routed.context.caller,
                               routed.context.timestamp)

\* C37: the signature of a successful result of executePrompt is the
\* signature over the executionId in the result's metadata.
C37_SignatureBindsResultId ==
    (routed.called /\ routed.result.success)
        => routed.result.signature = SignatureOfResult

\* C38: the executionCount that get_prompt_info reports for a prompt is the
\* number of successful executions of that prompt made so far through
\* execute_prompt and through the nodes of compose_prompt_dag.
C38_OneCounterPerPrompt ==
    server.info.called => server.info.executionCount = server.info.executed

\* the entries of o in the opposite iteration order
InReverse(o) == [i \in 1..Len(o) |-> o[Len(o) + 1 - i]]

\* one pass over the template: each placeholder of a key of values gives
\* way to the value as it is, and what was inserted is not read again
SinglePass(template, values) == replaceVariables(template, values, 1)

\* C39: the rendered text is the template with each placeholder of an input
\* replaced once by that input's value as it is, and it is the same text
\* whichever way round the input keys are iterated.
C39_SinglePassOrderFree ==
    rendering.called =>
        /\ rendering.rendered
              = SinglePass(rendering.template,
                           rendering.executionInputs \o rendering.resolved)
        /\ rendering.rendered
              = renderTemplate(rendering.template,
                               InReverse(rendering.executionInputs),
                               rendering.resolved)

\* C40: contexts and executionHistory have the same keys, and a
\* createContext call adds one context to the active ones: it replaces no
\* context that is still held and empties no recorded history.
C40_CreateAddsOneContext ==
    /\ DOMAIN manager.contexts = DOMAIN manager.executionHistory
    /\ manager.created.called =>
          /\ manager.created.after = manager.created.before + 1
          /\ ~manager.created.replaced
          /\ ~manager.created.historyLost
====
